---------------------------- MODULE Spec2Model ----------------------------
(***************************************************************************)
(* A model of jackc/goldilocks: the transaction discipline of Conn.Begin   *)
(* (conn.go) over one wire session, and the connection pool (pool.go) over *)
(* the generic resource pool it delegates to.                              *)
(*                                                                         *)
(* SpecConn runs Conn.Begin calls (nested up to MaxDepth) on one session.  *)
(* SpecPool runs NumTasks concurrent Pool.Acquire callers, the background  *)
(* health check and Pool.Close on one pool.                                *)
(***************************************************************************)
EXTENDS Integers, Sequences, FiniteSets, TLC

(***************************************************************************)
(* Bounds                                                                  *)
(***************************************************************************)
\* Deepest nesting of Conn.Begin inside the callback of another Conn.Begin.
MaxDepth == 2

\* Concurrent callers of Pool.Acquire.
NumTasks == 2
\* Slots for resources of the generic pool, in or out of its list.
MaxRes == 3

VARIABLES
    sess,       \* the wire session of the Conn: [closed, tx]
    stack,      \* the Conn.Begin calls in progress, outermost first
    returned,   \* the Conn.Begin call that exited last
    cfg,        \* the PoolConfig the Pool was built from
    res,        \* the generic pool's resources, by slot
    idle,       \* the generic pool's idle stack (slots, last in first out)
    pclosed,    \* the generic pool has been closed
    closeChan,  \* "open" or "closed"
    task,       \* each caller's position in Pool.Acquire
    hc,         \* the backgroundHealthCheck goroutine
    creating,   \* CreateResource calls of checkMinConns in progress
    closer,     \* position of the caller of Pool.Close
    ev,         \* what the step just taken did (see NoEvent)
    scratch,    \* the Conn's working buffers, kept from call to call
    qres        \* what the last Conn.Query or Conn.Exec call did and returned

connVars == <<sess, stack, returned>>
poolVars == <<cfg, res, idle, pclosed, closeChan, task, hc, creating, closer, ev>>
queryVars == <<scratch, qres>>
vars == <<sess, stack, returned, cfg, res, idle, pclosed, closeChan, task, hc,
          creating, closer, ev, scratch, qres>>

(***************************************************************************)
(* The wire session (pgconn.PgConn) as Conn drives it.                     *)
(***************************************************************************)
\* TxStatus bytes: 'I' idle, 'T' in transaction, 'E' failed transaction; "X"
\* stands for any other byte a ReadyForQuery message may carry.
TxStatuses == {"I", "T", "E", "X"}

\* How one Exec(...).Close() on the session can end: the statement ran, the
\* server answered with an error, the connection broke, or ctx was already done.
StmtOutcomes == {"ok", "pgerr", "neterr", "ctxerr"}

\* The outcomes open to statement stmt in session state s.
Outcomes(s, stmt) ==
    IF s.closed THEN {"neterr"}
    ELSE IF stmt = "rollback" THEN {"ok", "neterr", "ctxerr"}
    ELSE IF s.tx = "E" /\ stmt # "commit" THEN {"pgerr", "neterr", "ctxerr"}
    ELSE StmtOutcomes

\* The session after statement stmt ended with outcome o.
pgExec(s, stmt, o) ==
    CASE o = "neterr" -> [s EXCEPT !.closed = TRUE]
      [] o = "ctxerr" -> s
      [] o = "pgerr"  -> [s EXCEPT !.tx = IF stmt = "commit" \/ s.tx = "I"
                                             THEN "I" ELSE "E"]
      [] OTHER        -> [s EXCEPT !.tx = CASE stmt = "begin"    -> "T"
                                            [] stmt = "commit"   -> "I"
                                            [] stmt = "rollback" -> "I"
                                            [] OTHER             -> s.tx]

\* A Close that leaves the session as it is.
pgCloseLeavesOpen(s) == s

\* c.pgconn.Close(ctx)
pgClose(s) == [s EXCEPT !.closed = TRUE]

(***************************************************************************)
(* Error values                                                            *)
(***************************************************************************)
Nil == <<"nil", "", "">>
NoRet == <<"none", "", "">>
Panic == <<"panic", "", "">>
FErr == <<"f", "some error", "">>
WireErr(stmt, o) == <<"wire", stmt, o>>
ErrRolledBack == <<"fmt", "rolled back failed transaction", "">>
ErrNotInTx == <<"fmt", "not in transaction after calling f", "">>
ErrImpossible(txStatus) == <<"fmt", "impossible txStatus", txStatus>>

\* The error of Exec(stmt).Close() that ended with outcome o.
CloseErr(stmt, o) == IF o = "ok" THEN Nil ELSE WireErr(stmt, o)

(***************************************************************************)
(* Conn.Begin                                                              *)
(***************************************************************************)
\* One activation of Conn.Begin. sent lists the statements this activation
\* itself issued, with their outcomes; seen is the TxStatus the switch read.
NewFrame ==
    [pc |-> "begin", txInProgress |-> FALSE, sent |-> <<>>, fCalled |-> FALSE,
     fRes |-> "none", seen |-> "none", ret |-> NoRet]

NoCall == [NewFrame EXCEPT !.pc = "none"]

Top == stack[Len(stack)]
SetTop(fr) == [stack EXCEPT ![Len(stack)] = fr]
Send(fr, stmt, o) == [fr EXCEPT !.sent = Append(@, <<stmt, o>>)]

InCall == Len(stack) > 0

\* Code of the Conn's caller runs: at top level, or inside a callback f.
ClientRuns == IF Len(stack) = 0 THEN TRUE ELSE Top.pc = "inF"

\* A rollback closure that leaves txInProgress as it is.
rollbackKeepsFlag(fr, s, o) ==
    IF fr.txInProgress
    THEN [fr |-> Send(fr, "rollback", o),
          s  |-> IF CloseErr("rollback", o) # Nil
                 THEN pgClose(pgExec(s, "rollback", o))
                 ELSE pgExec(s, "rollback", o)]
    ELSE [fr |-> fr, s |-> s]

\* A rollback closure that ignores the error of its ROLLBACK.
rollbackBestEffort(fr, s, o) ==
    IF fr.txInProgress
    THEN [fr |-> [Send(fr, "rollback", o) EXCEPT !.txInProgress = FALSE],
          s  |-> pgExec(s, "rollback", o)]
    ELSE [fr |-> fr, s |-> s]

\* The rollback closure: a frame and a session in, a frame and a session out.
rollback(fr, s, o) ==
    IF fr.txInProgress
    THEN [fr |-> [Send(fr, "rollback", o) EXCEPT !.txInProgress = FALSE],
          s  |-> IF CloseErr("rollback", o) # Nil
                 THEN pgClose(pgExec(s, "rollback", o))
                 ELSE pgExec(s, "rollback", o)]
    ELSE [fr |-> fr, s |-> s]

\* afterBegin with the deferred rollback registered before BEGIN's error is looked at.
afterBeginDeferFirst(fr, o) ==
    IF CloseErr("begin", o) # Nil
    THEN [Send(fr, "begin", o) EXCEPT !.pc = "defer", !.txInProgress = TRUE,
                                      !.ret = CloseErr("begin", o)]
    ELSE [Send(fr, "begin", o) EXCEPT !.pc = "inF", !.txInProgress = TRUE,
                                      !.fCalled = TRUE]

\* BEGIN ended with outcome o.
afterBegin(fr, o) ==
    IF CloseErr("begin", o) # Nil
    THEN [Send(fr, "begin", o) EXCEPT !.pc = "exit", !.ret = CloseErr("begin", o)]
    ELSE [Send(fr, "begin", o) EXCEPT !.pc = "inF", !.txInProgress = TRUE,
                                      !.fCalled = TRUE]

\* txStatusSwitch with case 'E' falling into the commit of case 'T'.
txStatusSwitchCommitsFailed(fr, txStatus) ==
    CASE txStatus \in {"T", "E"} -> [fr EXCEPT !.seen = txStatus, !.pc = "commit"]
      [] txStatus = "I" -> [fr EXCEPT !.seen = txStatus, !.pc = "defer",
                                      !.ret = ErrNotInTx]
      [] OTHER          -> [fr EXCEPT !.seen = txStatus, !.pc = "defer",
                                      !.ret = ErrImpossible(txStatus)]

\* txStatusSwitch without its case 'I': the default case answers for it.
txStatusSwitchNoIdleCase(fr, txStatus) ==
    CASE txStatus = "T" -> [fr EXCEPT !.seen = txStatus, !.pc = "commit"]
      [] txStatus = "E" -> [fr EXCEPT !.seen = txStatus, !.pc = "rollbackE"]
      [] OTHER          -> [fr EXCEPT !.seen = txStatus, !.pc = "defer",
                                      !.ret = ErrImpossible(txStatus)]

\* The switch on TxStatus after f returned nil: where Begin goes next and,
\* when that is already decided, what it returns.
txStatusSwitch(fr, txStatus) ==
    CASE txStatus = "T" -> [fr EXCEPT !.seen = txStatus, !.pc = "commit"]
      [] txStatus = "E" -> [fr EXCEPT !.seen = txStatus, !.pc = "rollbackE"]
      [] txStatus = "I" -> [fr EXCEPT !.seen = txStatus, !.pc = "defer",
                                      !.ret = ErrNotInTx]
      [] OTHER          -> [fr EXCEPT !.seen = txStatus, !.pc = "defer",
                                      !.ret = ErrImpossible(txStatus)]

\* afterF with f's error dropped: the switch decides as if f had returned nil.
afterFIgnoresErr(fr, s, err) ==
    txStatusSwitch([fr EXCEPT !.fRes = IF err # Nil THEN "err" ELSE "nil"], s.tx)

\* f returned err.
afterF(fr, s, err) ==
    IF err # Nil
    THEN [fr EXCEPT !.fRes = "err", !.pc = "defer", !.ret = err]
    ELSE txStatusSwitch([fr EXCEPT !.fRes = "nil"], s.tx)

\* afterCommit with COMMIT's error swallowed.
afterCommitSwallowsErr(fr, o) ==
    [Send(fr, "commit", o) EXCEPT !.pc = "defer", !.ret = Nil]

\* COMMIT ended with outcome o: its error is Begin's return value.
afterCommit(fr, o) ==
    [Send(fr, "commit", o) EXCEPT !.pc = "defer", !.ret = CloseErr("commit", o)]

\* deferred with rollback called at the return statements instead of deferred:
\* a panic of f unwinds past it.
deferredNotOnPanic(fr, s, o) ==
    IF fr.ret = Panic THEN [fr |-> fr, s |-> s] ELSE rollback(fr, s, o)

\* defer rollback(): runs on every way out of Begin once BEGIN has succeeded.
deferred(fr, s, o) == rollback(fr, s, o)

\* The frame fr leaves the stack; a panic goes on into the callback that
\* made the call, which is then unwinding as well.
Exit(fr) ==
    /\ returned' = [fr EXCEPT !.pc = "exited"]
    /\ stack' =
         LET rest == SubSeq(stack, 1, Len(stack) - 1)
         IN  IF fr.ret = Panic /\ rest # <<>>
             THEN [rest EXCEPT ![Len(rest)] =
                       [@ EXCEPT !.fRes = "panic", !.pc = "defer", !.ret = Panic]]
             ELSE rest

ConnBeginCall ==
    /\ ClientRuns
    /\ Len(stack) < MaxDepth
    /\ stack' = Append(stack, NewFrame)
    /\ UNCHANGED <<sess, returned, poolVars, queryVars>>

ConnBeginStmt ==
    /\ InCall /\ Top.pc = "begin"
    /\ \E o \in Outcomes(sess, "begin") :
         /\ sess' = pgExec(sess, "begin", o)
         /\ stack' = SetTop(afterBegin(Top, o))
    /\ UNCHANGED <<returned, poolVars, queryVars>>

\* BEGIN failed: Begin returns before the deferred rollback is registered.
ConnBeginFailed ==
    /\ InCall /\ Top.pc = "exit"
    /\ Exit(Top)
    /\ UNCHANGED <<sess, poolVars, queryVars>>

\* The caller, or f, runs a statement of its own on the Conn.
ClientStmt ==
    /\ ClientRuns
    /\ \E stmt \in {"sql", "begin", "commit", "rollback"} :
         \E o \in Outcomes(sess, stmt) : sess' = pgExec(sess, stmt, o)
    /\ UNCHANGED <<stack, returned, poolVars, queryVars>>

\* The server reports a TxStatus byte outside 'I', 'T', 'E'.
ServerReportsOtherStatus ==
    /\ InCall /\ Top.pc = "inF"
    /\ ~sess.closed /\ sess.tx # "X"
    /\ sess' = [sess EXCEPT !.tx = "X"]
    /\ UNCHANGED <<stack, returned, poolVars, queryVars>>

FReturns ==
    /\ InCall /\ Top.pc = "inF"
    /\ \E err \in {Nil, FErr} : stack' = SetTop(afterF(Top, sess, err))
    /\ UNCHANGED <<sess, returned, poolVars, queryVars>>

FPanics ==
    /\ InCall /\ Top.pc = "inF"
    /\ stack' = SetTop([Top EXCEPT !.fRes = "panic", !.pc = "defer", !.ret = Panic])
    /\ UNCHANGED <<sess, returned, poolVars, queryVars>>

ConnCommit ==
    /\ InCall /\ Top.pc = "commit"
    /\ \E o \in Outcomes(sess, "commit") :
         /\ sess' = pgExec(sess, "commit", o)
         /\ stack' = SetTop(afterCommit(Top, o))
    /\ UNCHANGED <<returned, poolVars, queryVars>>

\* case 'E': rollback(); return "rolled back failed transaction"
ConnRollbackFailedTx ==
    /\ InCall /\ Top.pc = "rollbackE"
    /\ \E o \in Outcomes(sess, "rollback") :
         LET r == rollback(Top, sess, o)
         IN  /\ sess' = r.s
             /\ stack' = SetTop([r.fr EXCEPT !.pc = "defer", !.ret = ErrRolledBack])
    /\ UNCHANGED <<returned, poolVars, queryVars>>

\* defer rollback(), then Begin is left.
ConnDeferred ==
    /\ InCall /\ Top.pc = "defer"
    /\ \E o \in Outcomes(sess, "rollback") :
         LET r == deferred(Top, sess, o)
         IN  /\ sess' = r.s
             /\ Exit(r.fr)
    /\ UNCHANGED <<poolVars, queryVars>>

(***************************************************************************)
(* Codecs of the builtin types.  A payload is what travels in one          *)
(* parameter or column: the NULL marker or a sequence of bytes.  A Go      *)
(* value is [t, v] with v a sequence of numbers: the bytes of a string,   *)
(* the one number of an integer, the 16-bit words of a float's IEEE bit   *)
(* pattern, 1 or 0 for a bool that is true or false.                      *)
(***************************************************************************)
textFormat == 0
binaryFormat == 1

boolOID == 16
int8OID == 20
int2OID == 21
int4OID == 23
float4OID == 700
float8OID == 701

Null == [null |-> TRUE, b |-> <<>>]
Bytes(b) == [null |-> FALSE, b |-> b]

\* A []byte as append sees it: nil or not, its contents and its capacity.
NilBuf == [nil |-> TRUE, data |-> <<>>, cap |-> 0]

\* The capacity append gives a slice of capacity old that must hold need
\* bytes; slack is what the allocator's size class adds.
growCap(old, need, slack) == (IF need > 2 * old THEN need ELSE 2 * old) + slack

\* append(buf, bs...): appending nothing returns buf itself, nil included.
appendBytes(buf, bs, slack) ==
    IF Len(bs) = 0 THEN buf
    ELSE [nil  |-> FALSE,
          data |-> buf.data \o bs,
          cap  |-> IF Len(buf.data) + Len(bs) <= buf.cap THEN buf.cap
                   ELSE growCap(buf.cap, Len(buf.data) + Len(bs), slack)]

\* pgio.AppendInt16/32/64: the n low bytes of v in two's complement, most
\* significant first.
RECURSIVE bigEndian(_, _)
bigEndian(n, v) ==
    IF n = 0 THEN <<>> ELSE bigEndian(n - 1, v \div 256) \o <<v % 256>>

\* intN(binary.BigEndian.UintN(buf)): the signed number the bytes stand for.
RECURSIVE signedFrom(_, _)
signedFrom(acc, bs) ==
    IF Len(bs) = 0 THEN acc ELSE signedFrom(acc * 256 + Head(bs), Tail(bs))

fromBigEndian(bs) ==
    signedFrom(IF Head(bs) >= 128 THEN Head(bs) - 256 ELSE Head(bs), Tail(bs))

\* math.Float32bits / Float64bits followed by AppendUint32/64.
RECURSIVE wordsToBytes(_)
wordsToBytes(ws) ==
    IF Len(ws) = 0 THEN <<>>
    ELSE <<Head(ws) \div 256, Head(ws) % 256>> \o wordsToBytes(Tail(ws))

\* math.Float32frombits / Float64frombits of BigEndian.Uint32/64.
RECURSIVE bytesToWords(_)
bytesToWords(bs) ==
    IF Len(bs) = 0 THEN <<>>
    ELSE <<bs[1] * 256 + bs[2]>> \o bytesToWords(SubSeq(bs, 3, Len(bs)))

Str(b) == [t |-> "string", v |-> b]
Int16(n) == [t |-> "int16", v |-> <<n>>]
Int32(n) == [t |-> "int32", v |-> <<n>>]
Int64(n) == [t |-> "int64", v |-> <<n>>]
Float32(ws) == [t |-> "float32", v |-> ws]
Float64(ws) == [t |-> "float64", v |-> ws]
Bool(x) == [t |-> "bool", v |-> <<IF x THEN 1 ELSE 0>>]
\* A value of a Go type Conn has no codec for.
Unsupported == [t |-> "uint8", v |-> <<0>>]

BuiltinTypes == {"string", "int16", "int32", "int64", "float32", "float64", "bool"}

\* A Date is <<0, d>> for the day d days after 2000-01-01, <<1, 0>> for
\* DateInfinity and <<-1, 0>> for DateNegativeInfinity.
infinityDayOffset == 2147483647
negativeInfinityDayOffset == -2147483647 - 1
dateOID == 1082
Date(kind, d) == [t |-> "Date", v |-> <<kind, d>>]

\* The NullT wrappers: v is Valid (1 or 0) followed by Value.
NullTypes ==
    {"NullString", "NullInt16", "NullInt32", "NullInt64", "NullFloat32",
     "NullFloat64", "NullBool", "NullDate"}
baseType(t) ==
    CASE t = "NullString" -> "string" [] t = "NullInt16" -> "int16"
      [] t = "NullInt32" -> "int32" [] t = "NullInt64" -> "int64"
      [] t = "NullFloat32" -> "float32" [] t = "NullFloat64" -> "float64"
      [] t = "NullBool" -> "bool" [] t = "NullDate" -> "Date"
NullT(t, value, valid) == [t |-> t, v |-> <<IF valid THEN 1 ELSE 0>> \o value]

\* The zero value of a Go type (time.Time{} is the first day of year 1).
zeroValue(t) ==
    CASE t = "string" -> <<>> [] t = "float32" -> <<0, 0>>
      [] t = "float64" -> <<0, 0, 0, 0>> [] t = "Date" -> <<0, -730119>>
      [] OTHER -> <<0>>

\* The types prepareParams has an encoder for and the types (pointed to)
\* prepareResults has a decoder for.
ParamTypes == BuiltinTypes \cup NullTypes \cup {"Date"}
ResultTypes == BuiltinTypes \cup NullTypes \cup {"Date"}

\* The switch of prepareParams on args[i]: the writeT function of its type,
\* giving the grown buffer (nil for NULL), the oid and the format.
encodeParam(buf, arg, slack) ==
    CASE arg.t = "string"  ->
           [value |-> appendBytes(buf, arg.v, slack), oid |-> 0, format |-> textFormat]
      [] arg.t = "int16"   ->
           [value |-> appendBytes(buf, bigEndian(2, arg.v[1]), slack),
            oid |-> int2OID, format |-> binaryFormat]
      [] arg.t = "int32"   ->
           [value |-> appendBytes(buf, bigEndian(4, arg.v[1]), slack),
            oid |-> int4OID, format |-> binaryFormat]
      [] arg.t = "int64"   ->
           [value |-> appendBytes(buf, bigEndian(8, arg.v[1]), slack),
            oid |-> int8OID, format |-> binaryFormat]
      [] arg.t = "float32" ->
           [value |-> appendBytes(buf, wordsToBytes(arg.v), slack),
            oid |-> float4OID, format |-> binaryFormat]
      [] arg.t = "float64" ->
           [value |-> appendBytes(buf, wordsToBytes(arg.v), slack),
            oid |-> float8OID, format |-> binaryFormat]
      [] arg.t = "bool"    ->
           [value |-> appendBytes(buf, <<IF arg.v[1] = 1 THEN 1 ELSE 0>>, slack),
            oid |-> boolOID, format |-> binaryFormat]

\* writeDate: the day offset as an int32, the two infinities as the ends of
\* its range.
writeDate(buf, v, slack) ==
    [value |-> appendBytes(buf,
                  bigEndian(4, CASE v[1] = 1 -> infinityDayOffset
                                 [] v[1] = -1 -> negativeInfinityDayOffset
                                 [] OTHER -> v[2]),
                  slack),
     oid |-> dateOID, format |-> binaryFormat]

\* writeT of a builtin type or of Date.
writeValue(buf, t, v, slack) ==
    IF t = "Date" THEN writeDate(buf, v, slack)
    ELSE encodeParam(buf, [t |-> t, v |-> v], slack)

\* ParamEncoder.EncodeParam of Date and of the NullT wrappers: a wrapper
\* that is not valid returns nil, oid 0 and its type's format.
EncodeParam(buf, arg, slack) ==
    IF arg.t = "Date" THEN writeDate(buf, arg.v, slack)
    ELSE IF arg.v[1] = 1
    THEN writeValue(buf, baseType(arg.t), Tail(arg.v), slack)
    ELSE [value |-> NilBuf, oid |-> 0,
          format |-> IF arg.t = "NullString" THEN textFormat ELSE binaryFormat]

\* The whole type switch of prepareParams (without its default case).
encodeArg(buf, arg, slack) ==
    IF arg.t \in BuiltinTypes THEN encodeParam(buf, arg, slack)
    ELSE EncodeParam(buf, arg, slack)

\* Destinations: a pointer to a variable of a builtin type, nil (skip the
\* column), or something Conn has no decoder for.
Ptr(t) == [t |-> t, skip |-> FALSE]
NilDest == [t |-> "nil", skip |-> TRUE]
UnsupportedDest == [t |-> "*uint8", skip |-> FALSE]

resultFormatOfPointee(dest) ==
    IF dest.t \in {"string", "NullString"} THEN textFormat ELSE binaryFormat

\* ResultDecoder.ResultFormat
resultFormat(dest) ==
    IF dest.skip \/ dest.t \in {"string", "NullString"} THEN textFormat
    ELSE binaryFormat

typeWidthAlways4(t) == IF t = "string" THEN 0 ELSE 4

typeWidth(t) ==
    CASE t = "int16" -> 2 [] t = "int32" -> 4 [] t = "int64" -> 8
      [] t = "float32" -> 4 [] t = "float64" -> 8 [] t = "bool" -> 1
      [] t = "Date" -> 4 [] OTHER -> 0

ErrNullInto(t) ==
    <<"decode", "NULL cannot be converted to", IF t = "Date" THEN "time.Time" ELSE t>>
ErrWidth(t, n) ==
    <<"decode", (IF t = "Date" THEN "date" ELSE t) \o " requires data length of "
                    \o ToString(typeWidth(t)),
      "got " \o ToString(n)>>

\* readNotNullT on a payload of the right width: the value it stores.
readValue(t, b) ==
    CASE t = "string" -> b
      [] t \in {"int16", "int32", "int64"} -> <<fromBigEndian(b)>>
      [] t \in {"float32", "float64"} -> bytesToWords(b)
      [] t = "Date" ->
           IF fromBigEndian(b) = infinityDayOffset THEN <<1, 0>>
           ELSE IF fromBigEndian(b) = negativeInfinityDayOffset THEN <<-1, 0>>
           ELSE <<0, fromBigEndian(b)>>
      [] OTHER -> <<IF b[1] = 1 THEN 1 ELSE 0>>

wellFormed(t, payload) ==
    ~payload.null /\ (t = "string" \/ Len(payload.b) = typeWidth(t))

\* NullT.DecodeResult: NULL resets the wrapper, anything else sets Valid and
\* then reads the value.
decodeNull(dest, payload) ==
    IF payload.null
    THEN [err |-> Nil, stored |-> TRUE, v |-> <<0>> \o zeroValue(baseType(dest.t))]
    ELSE IF wellFormed(baseType(dest.t), payload)
    THEN [err |-> Nil, stored |-> TRUE,
          v |-> <<1>> \o readValue(baseType(dest.t), payload.b)]
    ELSE [err |-> ErrWidth(baseType(dest.t), Len(payload.b)), stored |-> FALSE,
          v |-> <<>>]

\* NullT.DecodeResult assigns n.Valid = true before the read that can fail.
setsValidFirst(dest, payload) ==
    ~dest.skip /\ dest.t \in NullTypes /\ ~payload.null

\* What a wrapper holds after such a failed read: Valid, and the Value it had
\* (the zero value when the caller has not written to it).
validOnly(dest, before) ==
    <<<<1>> \o (IF before = <<>> THEN zeroValue(baseType(dest.t))
                ELSE Tail(before[1]))>>

\* ResultDecoder.DecodeResult of the notNullT decoders, of *Date, of the
\* NullT wrappers and of nilSkip: the error, and the value stored through
\* the pointer when there is none.
decodeResult(dest, payload) ==
    IF dest.skip THEN [err |-> Nil, stored |-> FALSE, v |-> <<>>]
    ELSE IF dest.t \in NullTypes THEN decodeNull(dest, payload)
    ELSE IF payload.null
    THEN [err |-> ErrNullInto(dest.t), stored |-> FALSE, v |-> <<>>]
    ELSE IF dest.t = "string"
    THEN [err |-> Nil, stored |-> TRUE, v |-> payload.b]
    ELSE IF Len(payload.b) # typeWidth(dest.t)
    THEN [err |-> ErrWidth(dest.t, Len(payload.b)), stored |-> FALSE, v |-> <<>>]
    ELSE [err |-> Nil, stored |-> TRUE, v |-> readValue(dest.t, payload.b)]

(***************************************************************************)
(* Conn.Query and Conn.Exec.  scratch keeps what a later call can see of   *)
(* the Conn's working buffers: lengths, capacities and whether             *)
(* paramValuesBuf is nil.                                                  *)
(***************************************************************************)
NewScratch ==
    [bufNil |-> TRUE, bufLen |-> 0, bufCap |-> 0,
     paramLen |-> 0, paramCap |-> 0, resultLen |-> 0, resultCap |-> 0]

ErrUnsupportedOneBased(what, i, t) ==
    <<"unsupported", what \o "[" \o ToString(i + 1) \o "] is unsupported type", t>>

\* fmt.Errorf("args[%d] is unsupported type %T", i, args[i]), and the same
\* for results.
ErrUnsupported(what, i, t) ==
    <<"unsupported", what \o "[" \o ToString(i) \o "] is unsupported type", t>>

\* The loop of prepareParams from args[i] on (i counts from 1 here): each
\* value is encoded after the previous ones in buf, and its parameter is the
\* part of the buffer the encoder added, or NULL when the encoder gave nil.
RECURSIVE encodeArgs(_, _, _, _, _, _, _)
encodeArgs(args, i, buf, values, oids, formats, slack) ==
    IF i > Len(args)
    THEN [err |-> Nil, buf |-> buf, values |-> values, oids |-> oids,
          formats |-> formats]
    ELSE IF args[i].t \notin ParamTypes
    THEN [err |-> ErrUnsupported("args", i - 1, args[i].t), buf |-> buf,
          values |-> values, oids |-> oids, formats |-> formats]
    ELSE LET e == encodeArg(buf, args[i], slack)
         IN  IF e.value.nil
             THEN encodeArgs(args, i + 1, buf, Append(values, Null),
                             Append(oids, e.oid), Append(formats, e.format),
                             slack)
             ELSE encodeArgs(args, i + 1, e.value,
                             Append(values,
                                    Bytes(SubSeq(e.value.data, Len(buf.data) + 1,
                                                 Len(e.value.data)))),
                             Append(oids, e.oid), Append(formats, e.format),
                             slack)

\* prepareParams: the scratch state it leaves, its error, and the parameter
\* values, oids and formats it has set up.  capArgs is cap(args).
prepareParams(sc, args, capArgs, slack) ==
    IF Len(args) = 0
    THEN [sc |-> [sc EXCEPT !.paramLen = 0], err |-> Nil, realloc |-> FALSE,
          values |-> <<>>, oids |-> <<>>, formats |-> <<>>]
    ELSE LET maxParamCap == IF Len(args) * 2 < 32 THEN 32 ELSE Len(args) * 2
             newCap == IF Len(args) < 32 THEN 32 ELSE Len(args)
             realloc == sc.paramCap < Len(args) \/ maxParamCap < capArgs
             pcap == IF realloc THEN newCap ELSE sc.paramCap
             r == encodeArgs(args, 1,
                             [nil |-> sc.bufNil, data |-> <<>>, cap |-> sc.bufCap],
                             <<>>, <<>>, <<>>, slack)
         IN  [sc |-> [sc EXCEPT !.paramLen = Len(args), !.paramCap = pcap,
                                !.bufNil = r.buf.nil, !.bufLen = Len(r.buf.data),
                                !.bufCap = r.buf.cap],
              err |-> r.err, realloc |-> realloc, values |-> r.values,
              oids |-> r.oids, formats |-> r.formats]

\* The loop of prepareResults from results[i] on.
RECURSIVE decodersFor(_, _, _, _)
decodersFor(results, i, formats, decoders) ==
    IF i > Len(results)
    THEN [err |-> Nil, formats |-> formats, decoders |-> decoders]
    ELSE IF ~results[i].skip /\ results[i].t \notin ResultTypes
    THEN [err |-> ErrUnsupported("results", i - 1, results[i].t),
          formats |-> formats, decoders |-> decoders]
    ELSE decodersFor(results, i + 1, Append(formats, resultFormat(results[i])),
                     Append(decoders, results[i]))

\* prepareResults: capResults is cap(results).
prepareResults(sc, results, capResults) ==
    IF Len(results) = 0
    THEN [sc |-> [sc EXCEPT !.resultLen = 0], err |-> Nil, realloc |-> FALSE,
          formats |-> <<>>, decoders |-> <<>>]
    ELSE LET maxResultsCap == IF Len(results) * 2 < 64 THEN 64
                              ELSE Len(results) * 2
             newCap == IF Len(results) < 64 THEN 64 ELSE Len(results)
             realloc == sc.resultCap < Len(results) \/ maxResultsCap < capResults
             rcap == IF realloc THEN newCap ELSE sc.resultCap
             r == decodersFor(results, 1, <<>>, <<>>)
         IN  [sc |-> [sc EXCEPT !.resultLen = Len(results), !.resultCap = rcap],
              err |-> r.err, realloc |-> realloc, formats |-> r.formats,
              decoders |-> r.decoders]

releaseOversizedParamValuesBuf(sc) ==
    IF sc.bufLen + 512 < sc.bufCap \div 2
    THEN [sc EXCEPT !.bufNil = TRUE, !.bufLen = 0, !.bufCap = 0]
    ELSE sc

\* The error of the caller's rowFunc, and the errors rr.Close can return.
RowFuncErr == <<"rowFunc", "some error", "">>
QueryCloseErrs == {<<"pgconn", "server error", "">>,
                   <<"pgconn", "disconnected", "">>,
                   <<"context", "canceled", "">>}

\* The rows the server answers an ExecParams call with: the rows of the
\* scenario, or for a query that echoes its parameters one row holding them.
serverRows(in, values) == IF in.server = "echo" THEN <<values>> ELSE in.rows

NoWire == <<>>
NoQuery ==
    [op |-> "none", in |-> <<>>, rowCount |-> 0, err |-> NoRet, wire |-> NoWire,
     closed |-> FALSE, released |-> FALSE, trace |-> <<>>, dests |-> <<>>]

\* c.resultDecoders[i].DecodeResult(values[i]) on a destination that holds
\* before: the error and what the destination holds afterwards.
decodeColumn(dest, payload, before) ==
    [err   |-> decodeResult(dest, payload).err,
     after |-> IF decodeResult(dest, payload).stored
               THEN <<decodeResult(dest, payload).v>>
               ELSE IF setsValidFirst(dest, payload)
               THEN validOnly(dest, before)
               ELSE before]

decodeRowDecodesNothing(row, decoders, k, i, dests, trace) ==
    [err |-> Nil, dests |-> dests, trace |-> trace]

\* The inner loop of Query over the columns of row k, from column i on:
\* DecodeResult of each decoder on values[i].  A row with fewer columns than
\* decoders ends in the index-out-of-range panic of values[i].
RECURSIVE decodeRow(_, _, _, _, _, _)
decodeRow(row, decoders, k, i, dests, trace) ==
    IF i > Len(decoders) THEN [err |-> Nil, dests |-> dests, trace |-> trace]
    ELSE IF i > Len(row) THEN [err |-> Panic, dests |-> dests, trace |-> trace]
    ELSE LET d == decodeColumn(decoders[i], row[i], dests[i])
             stored == [j \in 1..Len(dests) |->
                          IF j = i THEN d.after ELSE dests[j]]
         IN  IF d.err # Nil
             THEN [err |-> d.err, dests |-> stored, trace |-> trace]
             ELSE decodeRow(row, decoders, k, i + 1, stored,
                            Append(trace, [e |-> "decode", row |-> k, col |-> i,
                                           dests |-> stored]))

rowLoopCountsNothing(rows, decoders, failAt, k, rowCount, dests, trace) ==
    [rowCount |-> 0, err |-> Nil, dests |-> dests, trace |-> trace]

\* The row loop of Query from row k on: rowCount++, the decoders, rowFunc.
\* failAt is the row at which the caller's rowFunc returns an error (0: none).
RECURSIVE rowLoop(_, _, _, _, _, _, _)
rowLoop(rows, decoders, failAt, k, rowCount, dests, trace) ==
    IF k > Len(rows)
    THEN [rowCount |-> rowCount, err |-> Nil, dests |-> dests, trace |-> trace]
    ELSE LET d == decodeRow(rows[k], decoders, k, 1, dests, trace)
             called == Append(d.trace, [e |-> "rowFunc", row |-> k, col |-> 0,
                                        dests |-> d.dests])
         IN  IF d.err # Nil
             THEN [rowCount |-> rowCount + 1, err |-> d.err, dests |-> d.dests,
                   trace |-> d.trace]
             ELSE IF failAt = k
             THEN [rowCount |-> rowCount + 1, err |-> RowFuncErr,
                   dests |-> d.dests, trace |-> called]
             ELSE rowLoop(rows, decoders, failAt, k + 1, rowCount + 1, d.dests,
                          called)

\* defer rr.Close() of Query: whatever way the call returns once the wire
\* call has been made, the wire result is closed.
deferredCloseSkipped(ret) == ret

deferredClose(ret) == [ret EXCEPT !.closed = TRUE]

\* What the caller's destination variables hold before the call.
Unset(results) == [i \in 1..Len(results) |-> <<>>]

\* The arguments of pgconn.ExecParams.
wireCall(p, resultFormats) ==
    [values |-> p.values, oids |-> p.oids, formats |-> p.formats,
     resultFormats |-> resultFormats]

\* Query from the row loop on: the loop has ended in loop.err or in nil, in
\* which case rr.Close() is called and, if that succeeds, the buffer check.
queryRows(sc, wire, loop, in) ==
    [sc  |-> IF loop.err = Nil /\ in.closeErr = Nil
             THEN releaseOversizedParamValuesBuf(sc) ELSE sc,
     ret |-> deferredClose(
                [op |-> "query", in |-> in, rowCount |-> loop.rowCount,
                 err |-> IF loop.err # Nil THEN loop.err ELSE in.closeErr,
                 wire |-> <<wire>>, closed |-> loop.err = Nil,
                 released |-> loop.err = Nil /\ in.closeErr = Nil,
                 trace |-> loop.trace, dests |-> loop.dests])]

\* Query from the result of prepareResults on.
querySend(p, r, in) ==
    IF r.err # Nil
    THEN [sc |-> r.sc,
          ret |-> [NoQuery EXCEPT !.op = "query", !.in = in, !.err = r.err,
                                  !.dests = Unset(in.results)]]
    ELSE queryRows(r.sc, wireCall(p, r.formats),
                   rowLoop(serverRows(in, p.values), r.decoders, in.failAt, 1, 0,
                           Unset(in.results), <<>>),
                   in)

\* Query from the result of prepareParams on.
queryPrepared(p, in) ==
    IF p.err # Nil
    THEN [sc |-> p.sc,
          ret |-> [NoQuery EXCEPT !.op = "query", !.in = in, !.err = p.err,
                                  !.dests = Unset(in.results)]]
    ELSE querySend(p, prepareResults(p.sc, in.results, in.capResults), in)

\* Conn.Query as a function of the Conn's scratch state and the call: the
\* scratch state it leaves and what it did and returned.
Query(sc, in) ==
    queryPrepared(prepareParams(sc, in.args, in.capArgs, in.slack), in)

execPreparedKeepsCount(p, in) ==
    [sc  |-> p.sc,
     ret |-> [op |-> "exec", in |-> in, rowCount |-> in.rowsAffected,
              err |-> IF p.err # Nil THEN p.err ELSE in.closeErr,
              wire |-> <<wireCall(p, <<>>)>>, closed |-> TRUE,
              released |-> FALSE, trace |-> <<>>, dests |-> <<>>]]

\* Exec from the result of prepareParams on; in.rowsAffected is what the
\* command tag reports.
execPrepared(p, in) ==
    IF p.err # Nil
    THEN [sc |-> p.sc, ret |-> [NoQuery EXCEPT !.op = "exec", !.in = in,
                                               !.err = p.err]]
    ELSE [sc  |-> IF in.closeErr = Nil
                  THEN releaseOversizedParamValuesBuf(p.sc) ELSE p.sc,
          ret |-> [op |-> "exec", in |-> in,
                   rowCount |-> IF in.closeErr = Nil THEN in.rowsAffected ELSE 0,
                   err |-> in.closeErr, wire |-> <<wireCall(p, <<>>)>>,
                   closed |-> TRUE, released |-> in.closeErr = Nil,
                   trace |-> <<>>, dests |-> <<>>]]

Exec(sc, in) ==
    execPrepared(prepareParams(sc, in.args, in.capArgs, in.slack), in)

\* The calls made on the Conn.  An echo call sends values of the builtin
\* types to a query that returns its parameters; a rows call reads rows the
\* server made up, among them NULLs, values of the wrong width and rows
\* with a column missing.
BigLen == 1030
MaxRows == 2

EchoValues ==
    {Str(<<>>), Str(<<104, 105>>), Str([i \in 1..BigLen |-> 120]),
     Int16(-32768), Int16(258), Int32(2147483647), Int32(-65537),
     Int64(-1), Int64(16909060),
     Float32(<<16256, 0>>), Float32(<<49152, 1>>),
     Float64(<<16368, 0, 0, 0>>), Float64(<<65520, 0, 0, 1>>),
     Bool(TRUE), Bool(FALSE)}

\* Values that come with their own encoder: wrappers that are valid (among
\* them the valid empty string) and not valid, and dates.
EncoderValues ==
    {NullT("NullString", <<>>, TRUE), NullT("NullString", <<104, 105>>, TRUE),
     NullT("NullString", <<>>, FALSE),
     NullT("NullInt16", <<42>>, TRUE), NullT("NullInt16", <<0>>, FALSE),
     NullT("NullInt16", <<5>>, FALSE),
     NullT("NullInt32", <<-43>>, TRUE), NullT("NullInt32", <<0>>, FALSE),
     NullT("NullInt64", <<44>>, TRUE), NullT("NullInt64", <<0>>, FALSE),
     NullT("NullFloat32", <<16940, 0>>, TRUE), NullT("NullFloat32", <<0, 0>>, FALSE),
     NullT("NullFloat64", <<16454, 0, 0, 0>>, TRUE),
     NullT("NullFloat64", <<0, 0, 0, 0>>, FALSE),
     NullT("NullBool", <<1>>, TRUE), NullT("NullBool", <<0>>, TRUE),
     NullT("NullBool", <<0>>, FALSE),
     NullT("NullDate", <<0, 7618>>, TRUE), NullT("NullDate", <<0, -730119>>, FALSE),
     Date(0, 7618), Date(0, -1), Date(1, 0), Date(-1, 0)}

EchoArgs ==
    {<<v>> : v \in EchoValues \cup EncoderValues}
        \cup {<<Int16(258), Str(<<>>)>>, <<Str(<<>>), Int16(258)>>,
              <<Str(<<>>), Str(<<104, 105>>)>>}

QueryInput(args, capArgs, slack, results, capResults, server, rows, failAt, closeErr) ==
    [args |-> args, capArgs |-> capArgs, slack |-> slack, results |-> results,
     capResults |-> capResults, server |-> server, rows |-> rows,
     failAt |-> failAt, closeErr |-> closeErr]

EchoInput(args, slack) ==
    QueryInput(args, Len(args), slack, [i \in 1..Len(args) |-> Ptr(args[i].t)],
               Len(args), "echo", <<>>, 0, Nil)

EchoInputs ==
    {EchoInput(args, 0) : args \in EchoArgs}
        \cup {EchoInput(<<Str([i \in 1..BigLen |-> 120])>>, 8)}

RowSet ==
    {<<Bytes(<<0, 7>>), Bytes(<<104>>)>>, <<Bytes(<<1, 0>>), Bytes(<<>>)>>,
     <<Null, Bytes(<<104>>)>>, <<Bytes(<<0, 7>>), Null>>, <<Bytes(<<0, 7>>)>>}

RowSeqs == UNION {[1..n -> RowSet] : n \in 0..MaxRows}

RowDests == {<<Ptr("int16"), Ptr("string")>>, <<NilDest, Ptr("string")>>}

\* How a rows call ends: the row at which rowFunc fails (0: none) and the
\* error of rr.Close().
RowEndings ==
    {<<0, Nil>>, <<0, <<"pgconn", "server error", "">>>>}
        \cup {<<k, Nil>> : k \in 1..MaxRows}

RowInputs ==
    {QueryInput(<<>>, 0, 0, results, Len(results), "rows", rows, ending[1],
                ending[2]) :
        results \in RowDests, rows \in RowSeqs, ending \in RowEndings}
        \cup {QueryInput(<<>>, 0, 0, <<>>, 0, "rows", rows, 0, e) :
                rows \in {<<>>, <<<<Bytes(<<0, 7>>)>>>>},
                e \in {Nil} \cup QueryCloseErrs}

\* Calls that name something Conn has no codec for, and calls whose
\* argument slice has far more capacity than length.
OddArgs ==
    {<<Unsupported>>, <<Int16(258), Unsupported>>, <<Unsupported, Unsupported>>}

OddInputs ==
    {QueryInput(args, Len(args), 0, <<Ptr("int16")>>, 1, "rows", <<>>, 0, Nil) :
        args \in OddArgs}
        \cup {QueryInput(<<Int16(258)>>, 1, 0, results, Len(results), "rows",
                         <<>>, 0, Nil) :
                results \in {<<UnsupportedDest>>, <<Ptr("int16"), UnsupportedDest>>,
                             <<NilDest, UnsupportedDest, UnsupportedDest>>}}
        \cup {QueryInput(<<Unsupported>>, 1, 0, <<UnsupportedDest>>, 1, "rows",
                         <<>>, 0, Nil),
              QueryInput(<<Int16(258)>>, 65, 0, <<Ptr("int16")>>, 129, "echo",
                         <<>>, 0, Nil),
              QueryInput(<<>>, 0, 0, <<Ptr("int32"), NilDest, Ptr("int32")>>, 3,
                         "rows",
                         <<<<Bytes(<<0, 0, 0, 1>>), Bytes(<<50>>),
                             Bytes(<<0, 0, 0, 3>>)>>>>, 0, Nil)}

QueryInputs == EchoInputs \cup RowInputs \cup OddInputs

ExecArgs ==
    OddArgs \cup {<<>>, <<Str(<<>>)>>, <<Int32(-65537), Str(<<104, 105>>)>>,
                  <<Bool(TRUE)>>}

ExecInputs ==
    {[args |-> args, capArgs |-> Len(args), slack |-> 0, closeErr |-> closeErr,
      rowsAffected |-> n] :
        args \in ExecArgs, closeErr \in {Nil, <<"context", "canceled", "">>},
        n \in {3}}

\* The decoders on their own: every destination type against payloads of
\* every width and NULL, on a destination not yet written and on one that
\* holds a value.
DecoderDests ==
    {Ptr(t) : t \in ResultTypes} \cup {NilDest}
Payloads ==
    {Null, Bytes(<<>>), Bytes(<<1>>), Bytes(<<0, 7>>), Bytes(<<1, 2, 3>>),
     Bytes(<<255, 255, 255, 254>>), Bytes(<<127, 255, 255, 255>>),
     Bytes(<<0, 0, 0, 0, 0, 0, 1, 0>>)}
Held(dest) ==
    IF dest.skip THEN {<<>>}
    ELSE IF dest.t \in NullTypes
    THEN {<<>>, <<<<0>> \o zeroValue(baseType(dest.t))>>}
    ELSE {<<>>, <<zeroValue(dest.t)>>}

DecodeCall ==
    /\ \E dest \in DecoderDests, payload \in Payloads :
          \E before \in Held(dest) :
              qres' = [op |-> "decode", dest |-> dest, payload |-> payload,
                       before |-> before,
                       err |-> decodeColumn(dest, payload, before).err,
                       after |-> decodeColumn(dest, payload, before).after]
    /\ UNCHANGED <<connVars, poolVars, scratch>>

ConnQuery ==
    /\ \E in \in QueryInputs :
        LET q == Query(scratch, in)
        IN  scratch' = q.sc /\ qres' = q.ret
    /\ UNCHANGED <<connVars, poolVars>>

\* Calls with few and with many arguments and results, in slices with no,
\* some and much spare capacity.
ManyLen == 33
ManyArgs == [i \in 1..ManyLen |-> Int16(1)]

SizedInputs ==
    {QueryInput(args, Len(args) + spareArgs, 0, results,
                Len(results) + spareResults, "rows", <<>>, 0, Nil) :
        args \in {<<>>, <<Int16(258)>>, <<Int16(1), Str(<<104>>)>>, ManyArgs},
        spareArgs \in {0, 31, 64},
        results \in {<<>>, <<Ptr("int16")>>,
                     <<Ptr("int16"), NilDest, Ptr("string")>>},
        spareResults \in {0, 63, 128}}

ConnQuerySized ==
    /\ \E in \in SizedInputs :
        LET q == Query(scratch, in)
        IN  scratch' = q.sc /\ qres' = q.ret
    /\ UNCHANGED <<connVars, poolVars>>

ConnExec ==
    /\ \E in \in ExecInputs :
        LET q == Exec(scratch, in)
        IN  scratch' = q.sc /\ qres' = q.ret
    /\ UNCHANGED <<connVars, poolVars>>

ConnStart ==
    /\ sess = [closed |-> FALSE, tx |-> "I"]
    /\ stack = <<>>
    /\ returned = NoCall
    /\ scratch = NewScratch
    /\ qres = NoQuery

(***************************************************************************)
(* ParsePoolConfig                                                         *)
(***************************************************************************)
defaultMaxConns == 4
defaultMinConns == 0
\* Durations are counted in minutes.
defaultMaxConnLifetime == 60
defaultMaxConnIdleTime == 5
defaultHealthCheckPeriod == 1

\* A key of the connection string: <<>> when absent, <<s>> when set to the
\* text s, a sequence of characters.
Absent == <<>>
IsSet(key) == Len(key) > 0

MaxInt32 == 2147483647
MinInt32 == -2147483647 - 1

Digits == {"0", "1", "2", "3", "4", "5", "6", "7", "8", "9"}
digit(c) ==
    CASE c = "0" -> 0 [] c = "1" -> 1 [] c = "2" -> 2 [] c = "3" -> 3
      [] c = "4" -> 4 [] c = "5" -> 5 [] c = "6" -> 6 [] c = "7" -> 7
      [] c = "8" -> 8 [] c = "9" -> 9

ErrSyntax == "invalid syntax"
ErrRange == "value out of range"

\* The digits of s from position i on, accumulated as a negative number so
\* that the magnitude 2^31 can be held: the first character that is not a
\* digit is a syntax error, the first digit that takes the magnitude past
\* 2^31 a range error.
RECURSIVE parseDigits(_, _, _)
parseDigits(s, i, neg) ==
    IF i > Len(s) THEN [err |-> "", n |-> neg]
    ELSE IF s[i] \notin Digits THEN [err |-> ErrSyntax, n |-> 0]
    ELSE IF neg < (MinInt32 + digit(s[i]) + 9) \div 10
         THEN [err |-> ErrRange, n |-> 0]
    ELSE parseDigits(s, i + 1, neg * 10 - digit(s[i]))

\* strconv.ParseInt(s, 10, 32): an optional sign and at least one decimal
\* digit, the value within -2^31 .. 2^31 - 1.
ParseInt(s) ==
    LET signed == Len(s) > 0 /\ s[1] \in {"+", "-"}
        body == IF signed THEN SubSeq(s, 2, Len(s)) ELSE s
        m == parseDigits(body, 1, 0)
    IN  IF Len(body) = 0 THEN [err |-> ErrSyntax, n |-> 0]
        ELSE IF m.err # "" THEN m
        ELSE IF signed /\ s[1] = "-" THEN [err |-> "", n |-> m.n]
        ELSE IF m.n = MinInt32 THEN [err |-> ErrRange, n |-> 0]
        ELSE [err |-> "", n |-> -m.n]

\* The first position from i on that holds no digit.
RECURSIVE digitsEnd(_, _)
digitsEnd(s, i) ==
    IF i <= Len(s) /\ s[i] \in Digits THEN digitsEnd(s, i + 1) ELSE i

\* The first position from i on that holds a digit or a point.
RECURSIVE unitEnd(_, _)
unitEnd(s, i) ==
    IF i <= Len(s) /\ s[i] \notin Digits \cup {"."} THEN unitEnd(s, i + 1) ELSE i

\* The decimal number that the digits s[i..j] stand for.
RECURSIVE leadingInt(_, _, _)
leadingInt(s, i, j) ==
    IF j < i THEN 0 ELSE leadingInt(s, i, j - 1) * 10 + digit(s[j])

\* The minutes in one unit; 0 for a text that is no unit.  The units below
\* the minute and fractions are not among the texts parsed here.
unitMap(u) ==
    IF u = <<"m">> THEN 1 ELSE IF u = <<"h">> THEN 60 ELSE 0

ErrDuration == "invalid duration"
ErrMissingUnit == "missing unit in duration"
ErrUnknownUnit == "unknown unit in duration"

\* The loop of time.ParseDuration over the terms of s from position i on:
\* each term is a number followed by a unit.
RECURSIVE parseTerms(_, _, _)
parseTerms(s, i, d) ==
    IF i > Len(s) THEN [err |-> "", d |-> d]
    ELSE IF s[i] \notin Digits THEN [err |-> ErrDuration, d |-> 0]
    ELSE IF unitEnd(s, digitsEnd(s, i)) = digitsEnd(s, i)
    THEN [err |-> ErrMissingUnit, d |-> 0]
    ELSE IF unitMap(SubSeq(s, digitsEnd(s, i), unitEnd(s, digitsEnd(s, i)) - 1)) = 0
    THEN [err |-> ErrUnknownUnit, d |-> 0]
    ELSE parseTerms(s, unitEnd(s, digitsEnd(s, i)),
                    d + leadingInt(s, i, digitsEnd(s, i) - 1)
                        * unitMap(SubSeq(s, digitsEnd(s, i),
                                         unitEnd(s, digitsEnd(s, i)) - 1)))

\* time.ParseDuration(s): an optional sign, then "0" or one or more terms;
\* no test of the sign or of zero.
ParseDuration(s) ==
    LET signed == Len(s) > 0 /\ s[1] \in {"+", "-"}
        body == IF signed THEN SubSeq(s, 2, Len(s)) ELSE s
        r == parseTerms(body, 1, 0)
    IN  IF body = <<"0">> THEN [err |-> "", d |-> 0]
        ELSE IF Len(body) = 0 THEN [err |-> ErrDuration, d |-> 0]
        ELSE IF r.err # "" THEN r
        ELSE IF signed /\ s[1] = "-" THEN [err |-> "", d |-> -r.d]
        ELSE r

tooSmallBelowZero(n) == n < 0

\* pool_max_conns must be at least 1.
tooSmall(n) == n < 1

\* ParsePoolConfig on the pool keys of a connection string, on a machine with
\* numCPU processors: [err, config].
ParsePoolConfig(in, numCPU) ==
    LET max == IF IsSet(in.max) THEN ParseInt(in.max[1]) ELSE [err |-> "", n |-> 0]
        min == IF IsSet(in.min) THEN ParseInt(in.min[1]) ELSE [err |-> "", n |-> 0]
        lifetime == IF IsSet(in.lifetime) THEN ParseDuration(in.lifetime[1])
                    ELSE [err |-> "", d |-> defaultMaxConnLifetime]
        idleTime == IF IsSet(in.idleTime) THEN ParseDuration(in.idleTime[1])
                    ELSE [err |-> "", d |-> defaultMaxConnIdleTime]
        period == IF IsSet(in.period) THEN ParseDuration(in.period[1])
                  ELSE [err |-> "", d |-> defaultHealthCheckPeriod]
        config ==
          [MaxConns |-> IF IsSet(in.max) THEN max.n
                        ELSE IF numCPU > defaultMaxConns THEN numCPU
                        ELSE defaultMaxConns,
           MinConns |-> IF IsSet(in.min) THEN min.n ELSE defaultMinConns,
           MaxConnLifetime |-> lifetime.d,
           MaxConnIdleTime |-> idleTime.d,
           HealthCheckPeriod |-> period.d,
           createdByParseConfig |-> TRUE]
    IN  IF max.err # ""
        THEN [err |-> <<"config", "cannot parse pool_max_conns", max.err>>,
              config |-> <<>>]
        ELSE IF IsSet(in.max) /\ tooSmall(max.n)
        THEN [err |-> <<"config", "pool_max_conns too small", "">>,
              config |-> <<>>]
        ELSE IF min.err # ""
        THEN [err |-> <<"config", "cannot parse pool_min_conns", min.err>>,
              config |-> <<>>]
        ELSE IF lifetime.err # ""
        THEN [err |-> <<"config", "invalid pool_max_conn_lifetime", lifetime.err>>,
              config |-> <<>>]
        ELSE IF idleTime.err # ""
        THEN [err |-> <<"config", "invalid pool_max_conn_idle_time", idleTime.err>>,
              config |-> <<>>]
        ELSE IF period.err # ""
        THEN [err |-> <<"config", "invalid pool_health_check_period", period.err>>,
              config |-> <<>>]
        ELSE [err |-> Nil, config |-> <<config>>]

\* The connection strings the pool is built from in this model.
PoolInputs ==
    [max : {<<<<"0">>>>, <<<<"1">>>>, <<<<"2">>>>}, min : {Absent, <<<<"1">>>>},
     lifetime : {<<<<"1", "m">>>>}, idleTime : {<<<<"0">>>>}, period : {Absent}]

AcceptedConfigs ==
    {ParsePoolConfig(in, 1).config[1] :
        in \in {x \in PoolInputs : ParsePoolConfig(x, 1).err = Nil}}

\* The texts a pool key is given in the connection strings that are parsed.
MaxConnsTexts ==
    {<<"0">>, <<"1">>, <<"2">>, <<"-", "1">>, <<"+", "3">>, <<>>, <<"-">>,
     <<"1", ".", "5">>, <<"a">>, <<"0", "0", "7">>,
     <<"2", "1", "4", "7", "4", "8", "3", "6", "4", "7">>,
     <<"2", "1", "4", "7", "4", "8", "3", "6", "4", "8">>,
     <<"9", "9", "9", "9", "9", "9", "9", "9", "9", "9", "9">>}

MinConnsTexts ==
    {<<"0">>, <<"1">>, <<"-", "1">>, <<"5">>, <<>>, <<"x">>,
     <<"-", "2", "1", "4", "7", "4", "8", "3", "6", "4", "8">>,
     <<"-", "2", "1", "4", "7", "4", "8", "3", "6", "4", "9">>}

DurationTexts ==
    {<<"1", "m">>, <<"0">>, <<"0", "m">>, <<"-", "1", "m">>, <<"+", "2", "m">>,
     <<"-", "0">>, <<"1", "h">>, <<"1", "h", "3", "0", "m">>, <<>>, <<"-">>,
     <<"1">>, <<"m">>, <<"1", "x">>}

ParseInputs ==
    [max : {Absent} \cup {<<s>> : s \in MaxConnsTexts},
     min : {Absent} \cup {<<s>> : s \in MinConnsTexts},
     lifetime : {Absent, <<<<"1", "m">>>>}, idleTime : {Absent}, period : {Absent}]
    \cup
    [max : {Absent, <<<<"2">>>>}, min : {Absent, <<<<"x">>>>},
     lifetime : {Absent, <<<<"1">>>>}, idleTime : {Absent, <<<<"5", "m">>>>},
     period : {<<s>> : s \in DurationTexts}]

NumCPUs == {1, 8}

\* One call of ParsePoolConfig.
ParseCall ==
    /\ \E in \in ParseInputs, numCPU \in NumCPUs :
          LET r == ParsePoolConfig(in, numCPU)
          IN  qres' = [op |-> "parse", in |-> in, numCPU |-> numCPU,
                       err |-> r.err, config |-> r.config]
    /\ UNCHANGED <<connVars, poolVars, scratch>>

(***************************************************************************)
(* The generic resource pool (puddle) as Pool drives it.  A slot's status: *)
(*   "none"         no resource                                            *)
(*   "constructing" Acquire is connecting for it                           *)
(*   "idle", "acquired"                                                    *)
(*   "destroying"   Destroy was called; the resource stays listed, as      *)
(*                  acquired, until its destructor has finished            *)
(*   "closing"      dropped from the pool's list, destructor running       *)
(* Times are kept as durations: age is the time since CreationTime and     *)
(* idleFor the time since the last Release, in clock ticks, each capped    *)
(* one tick above the limit the code compares it with.                     *)
(***************************************************************************)
Slots == 1..MaxRes
Tasks == 1..NumTasks
NoSlot == 0

NoRes == [status |-> "none", age |-> 0, idleFor |-> 0]
NewRes(status) == [status |-> status, age |-> 0, idleFor |-> 0]

\* Stat(): the resources the pool lists.
TotalConns(rs) == Cardinality({r \in Slots :
    rs[r].status \in {"constructing", "idle", "acquired", "destroying"}})
AcquiredConns(rs) == Cardinality({r \in Slots :
    rs[r].status \in {"acquired", "destroying"}})
IdleConns(rs) == Cardinality({r \in Slots : rs[r].status = "idle"})
ConstructingConns(rs) == Cardinality({r \in Slots : rs[r].status = "constructing"})

InUse(rs) == Cardinality({r \in Slots : rs[r].status # "none"})
FreeSlot(rs) == CHOOSE r \in Slots :
    rs[r].status = "none" /\ \A q \in Slots : rs[q].status = "none" => r <= q

InSeq(seq, x) == \E k \in 1..Len(seq) : seq[k] = x

\* res.Destroy(): the destructor runs on its own goroutine.
puddleDestroy(rs, r) == [rs EXCEPT ![r] = NewRes("destroying")]

\* A Release that does not look at the closed flag of the pool.
puddleReleaseIgnoresClosed(rs, r, closed) ==
    [rs EXCEPT ![r].status = "idle", ![r].idleFor = 0]

\* A Release that loses the resource: it stays listed as acquired.
puddleReleaseLeaks(rs, r, closed) == rs

\* res.Release(): back on the idle stack with the idle clock restarted, or,
\* on a closed pool, out of the pool and into its destructor.
puddleRelease(rs, r, closed) ==
    IF closed THEN [rs EXCEPT ![r] = NewRes("closing")]
    ELSE [rs EXCEPT ![r].status = "idle", ![r].idleFor = 0]

\* A ReleaseUnused that restarts the idle clock, as Release does.
puddleReleaseUnusedCounts(rs, r, closed) ==
    IF closed THEN [rs EXCEPT ![r] = NewRes("closing")]
    ELSE [rs EXCEPT ![r].status = "idle", ![r].idleFor = 0]

\* res.ReleaseUnused(): as Release, but the idle clock keeps running.
puddleReleaseUnused(rs, r, closed) ==
    IF closed THEN [rs EXCEPT ![r] = NewRes("closing")]
    ELSE [rs EXCEPT ![r].status = "idle"]

\* The idle stack after slot r was handed back in resource table rs.
Restack(idl, rs, r) == IF rs[r].status = "idle" THEN Append(idl, r) ELSE idl

(***************************************************************************)
(* Pool.Acquire and Pool.releaseConn                                       *)
(***************************************************************************)
IdleTask == [pc |-> "idle", res |-> NoSlot]

HealthyConn == [closed |-> FALSE, busy |-> FALSE, tx |-> "I"]

\* ev tells what the step just taken did, when it ended a Pool.Acquire call:
\* the error returned, whether f ran, and what releaseConn saw (conn, age),
\* called and left the resource's slot in.
NoEvent ==
    [op |-> "none", err |-> NoRet, ranF |-> FALSE, conn |-> HealthyConn,
     age |-> 0, call |-> "none", after |-> "none"]

\* The states f leaves the connection's wire session in: sound, with each
\* single defect releaseConn looks for, and with all of them.
ConnStates ==
    {HealthyConn,
     [HealthyConn EXCEPT !.closed = TRUE],
     [HealthyConn EXCEPT !.busy = TRUE],
     [HealthyConn EXCEPT !.tx = "T"],
     [HealthyConn EXCEPT !.tx = "E"],
     [closed |-> TRUE, busy |-> TRUE, tx |-> "E"]}

\* now.Sub(res.CreationTime())
Age(rs, r) == rs[r].age
\* res.IdleDuration()
IdleDuration(rs, r) == rs[r].idleFor

\* releaseConnCall without the IsBusy test.
releaseConnCallIgnoresBusy(conn, age, maxConnLifetime) ==
    IF conn.closed \/ conn.tx # "I" \/ age > maxConnLifetime
    THEN "Destroy"
    ELSE "Release"

\* releaseConnCall without the test of the age.
releaseConnCallIgnoresAge(conn, age, maxConnLifetime) ==
    IF conn.closed \/ conn.busy \/ conn.tx # "I"
    THEN "Destroy"
    ELSE "Release"

\* releaseConn's choice for a connection of the given age.
releaseConnCall(conn, age, maxConnLifetime) ==
    IF conn.closed \/ conn.busy \/ conn.tx # "I" \/ age > maxConnLifetime
    THEN "Destroy"
    ELSE "Release"

\* releaseConn called after f instead of deferred: a panic of f skips it.
releaseRunsUnlessPanic(outcome) == outcome # "panic"

\* defer p.releaseConn(res): whether releaseConn runs when f ends with outcome.
releaseRuns(outcome) == TRUE

\* A caller enters Pool.Acquire.
AcquireCall(t) ==
    /\ task[t].pc = "idle"
    /\ task' = [task EXCEPT ![t].pc = "acquiring"]
    /\ ev' = NoEvent
    /\ UNCHANGED <<cfg, res, idle, pclosed, closeChan, hc, creating, closer, connVars, queryVars>>

\* p.p.Acquire(ctx), under the generic pool's lock: fail on a closed pool, take
\* the idle resource released last, or start constructing one while the pool
\* lists fewer than MaxConns; otherwise keep waiting.
PuddleAcquire(t) ==
    /\ task[t].pc = "acquiring"
    /\ \/ /\ pclosed
          /\ task' = [task EXCEPT ![t] = IdleTask]
          /\ ev' = [NoEvent EXCEPT !.op = "acquireFailed",
                                   !.err = <<"puddle", "closed pool", "">>]
          /\ UNCHANGED <<res, idle>>
       \/ /\ ~pclosed /\ Len(idle) > 0
          /\ LET r == idle[Len(idle)]
             IN  /\ res' = [res EXCEPT ![r].status = "acquired", ![r].idleFor = 0]
                 /\ idle' = SubSeq(idle, 1, Len(idle) - 1)
                 /\ task' = [task EXCEPT ![t] = [pc |-> "inF", res |-> r]]
          /\ ev' = NoEvent
       \/ /\ ~pclosed /\ Len(idle) = 0
          /\ TotalConns(res) < cfg.MaxConns
          /\ InUse(res) + creating < MaxRes
          /\ LET r == FreeSlot(res)
             IN  /\ res' = [res EXCEPT ![r] = NewRes("constructing")]
                 /\ task' = [task EXCEPT ![t] = [pc |-> "constructing", res |-> r]]
          /\ ev' = NoEvent
          /\ UNCHANGED idle
    /\ UNCHANGED <<cfg, pclosed, closeChan, hc, creating, closer, connVars, queryVars>>

\* The waiting caller's ctx is cancelled.
AcquireCanceled(t) ==
    /\ task[t].pc = "acquiring"
    /\ task' = [task EXCEPT ![t] = IdleTask]
    /\ ev' = [NoEvent EXCEPT !.op = "acquireFailed",
                             !.err = <<"ctx", "canceled", "">>]
    /\ UNCHANGED <<cfg, res, idle, pclosed, closeChan, hc, creating, closer, connVars, queryVars>>

\* The constructor (pgconn.ConnectConfig) of the resource Acquire is building
\* ends: f gets the new connection, or Acquire returns the connect error.
ConstructDone(t) ==
    /\ task[t].pc = "constructing"
    /\ \/ /\ res' = [res EXCEPT ![task[t].res].status = "acquired"]
          /\ task' = [task EXCEPT ![t].pc = "inF"]
          /\ ev' = NoEvent
       \/ /\ res' = [res EXCEPT ![task[t].res] = NoRes]
          /\ task' = [task EXCEPT ![t] = IdleTask]
          /\ ev' = [NoEvent EXCEPT !.op = "acquireFailed",
                                   !.err = <<"wire", "connect", "neterr">>]
    /\ UNCHANGED <<cfg, idle, pclosed, closeChan, hc, creating, closer, connVars, queryVars>>

\* The error Acquire returns when f ended with outcome.
AcquireErr(outcome) ==
    CASE outcome = "nil" -> Nil
      [] outcome = "err" -> FErr
      [] OTHER           -> Panic

\* The way out of Pool.Acquire once f has ended with outcome and error err,
\* the connection in state conn: the deferred releaseConn classifies the
\* connection and hands the resource back, and Acquire returns err.
AcquireReturn(t, op, outcome, err, conn) ==
    /\ LET r    == task[t].res
           call == releaseConnCall(conn, Age(res, r), cfg.MaxConnLifetime)
           rs   == IF call = "Destroy" THEN puddleDestroy(res, r)
                   ELSE puddleRelease(res, r, pclosed)
           exit == [NoEvent EXCEPT !.op = op, !.ranF = TRUE, !.err = err,
                                   !.conn = conn, !.age = Age(res, r)]
       IN  IF releaseRuns(outcome)
           THEN /\ res' = rs
                /\ idle' = Restack(idle, rs, r)
                /\ ev' = [exit EXCEPT !.call = call, !.after = rs[r].status]
           ELSE /\ ev' = [exit EXCEPT !.after = res[r].status]
                /\ UNCHANGED <<res, idle>>
    /\ task' = [task EXCEPT ![t] = IdleTask]
    /\ UNCHANGED <<cfg, pclosed, closeChan, hc, creating, closer>>

\* f ends (nil, an error or a panic) leaving the connection in any state.
AcquireExit(t) ==
    /\ task[t].pc = "inF"
    /\ \E outcome \in {"nil", "err", "panic"}, conn \in ConnStates :
         AcquireReturn(t, "acquireExit", outcome, AcquireErr(outcome), conn)
    /\ UNCHANGED <<connVars, queryVars>>

\* A destructor finishes: the wire session is closed and the slot is free.
DestructDone(r) ==
    /\ res[r].status \in {"destroying", "closing"}
    /\ res' = [res EXCEPT ![r] = NoRes]
    /\ ev' = NoEvent
    /\ UNCHANGED <<cfg, idle, pclosed, closeChan, task, hc, creating, closer, connVars, queryVars>>

\* One tick of the clock: every connection is a tick older, and every
\* connection that is idle, or held by the sweep, a tick longer idle.
Older(rc, held) ==
    [rc EXCEPT
       !.age = IF rc.status \in {"constructing", "idle", "acquired"}
                  /\ @ <= cfg.MaxConnLifetime THEN @ + 1 ELSE @,
       !.idleFor = IF (rc.status = "idle" \/ held) /\ @ <= cfg.MaxConnIdleTime
                   THEN @ + 1 ELSE @]

Tick ==
    /\ res' = [r \in Slots |->
                 Older(res[r], \E k \in 1..Len(hc.held) : hc.held[k].slot = r)]
    /\ res' # res
    /\ ev' = NoEvent
    /\ UNCHANGED <<cfg, idle, pclosed, closeChan, task, hc, creating, closer, connVars, queryVars>>

(***************************************************************************)
(* backgroundHealthCheck: checkIdleConnsHealth and checkMinConns           *)
(***************************************************************************)
\* A snapshot of every usable resource the pool lists, acquired ones included.
sweepSnapshotAll(rs, idl) ==
    SelectSeq([k \in 1..MaxRes |-> k],
              LAMBDA r : rs[r].status \in {"idle", "acquired"})

\* p.p.AcquireAllIdle(): the idle stack, every resource on it now acquired.
sweepSnapshot(rs, idl) == idl

\* A sweep that looks at the idle time only.
sweepCallIgnoresAge(age, idleDuration, maxConnLifetime, maxConnIdleTime) ==
    IF idleDuration > maxConnIdleTime THEN "Destroy" ELSE "ReleaseUnused"

\* checkIdleConnsHealth's choice for one resource of the snapshot.
sweepCall(age, idleDuration, maxConnLifetime, maxConnIdleTime) ==
    IF age > maxConnLifetime THEN "Destroy"
    ELSE IF idleDuration > maxConnIdleTime THEN "Destroy"
    ELSE "ReleaseUnused"

\* A checkMinConns that starts one goroutine at a time.
minConnsToStartOne(minConns, totalConns) ==
    IF minConns - totalConns > 0 THEN 1 ELSE 0

\* checkMinConns: how many CreateResource goroutines are started.
minConnsToStart(minConns, totalConns) ==
    IF minConns - totalConns > 0 THEN minConns - totalConns ELSE 0

HcLoop == [pc |-> "loop", held |-> <<>>]
HeldSlots == {hc.held[k].slot : k \in 1..Len(hc.held)}

\* case <-ticker.C: checkIdleConnsHealth takes its snapshot and reads the
\* clock once; held keeps each resource with its age at that reading.
HealthTick ==
    /\ hc.pc = "loop"
    /\ LET snap == sweepSnapshot(res, idle)
       IN  /\ res' = [r \in Slots |->
                        IF InSeq(snap, r) THEN [res[r] EXCEPT !.status = "acquired"]
                        ELSE res[r]]
           /\ idle' = SelectSeq(idle, LAMBDA x : ~InSeq(snap, x))
           /\ hc' = [pc |-> "sweep",
                     held |-> [k \in 1..Len(snap) |->
                                 [slot |-> snap[k], age |-> Age(res, snap[k])]]]
    /\ ev' = NoEvent
    /\ UNCHANGED <<cfg, pclosed, closeChan, task, creating, closer, connVars, queryVars>>

\* One turn of the loop over the snapshot.
SweepStep ==
    /\ hc.pc = "sweep" /\ Len(hc.held) > 0
    /\ LET r    == Head(hc.held).slot
           call == sweepCall(Head(hc.held).age, IdleDuration(res, r),
                             cfg.MaxConnLifetime, cfg.MaxConnIdleTime)
           rs   == IF call = "Destroy" THEN puddleDestroy(res, r)
                   ELSE puddleReleaseUnused(res, r, pclosed)
       IN  /\ res' = rs
           /\ idle' = Restack(idle, rs, r)
           /\ hc' = [hc EXCEPT !.held = Tail(@)]
    /\ ev' = NoEvent
    /\ UNCHANGED <<cfg, pclosed, closeChan, task, creating, closer, connVars, queryVars>>

\* The sweep is over; checkMinConns reads TotalConns once and starts that many
\* goroutines, each calling p.p.CreateResource.
CheckMinConns ==
    /\ hc.pc = "sweep" /\ Len(hc.held) = 0
    /\ LET n == minConnsToStart(cfg.MinConns, TotalConns(res))
       IN  /\ InUse(res) + creating + n <= MaxRes
           /\ creating' = creating + n
    /\ hc' = HcLoop
    /\ ev' = NoEvent
    /\ UNCHANGED <<cfg, res, idle, pclosed, closeChan, task, closer, connVars, queryVars>>

\* case <-p.closeChan
HealthExit ==
    /\ hc.pc = "loop" /\ closeChan = "closed"
    /\ hc' = [hc EXCEPT !.pc = "exited"]
    /\ ev' = NoEvent
    /\ UNCHANGED <<cfg, res, idle, pclosed, closeChan, task, creating, closer, connVars, queryVars>>

\* p.p.CreateResource(ctx) ends.  It gives up on a closed pool or when the
\* connect fails; else the new resource goes straight onto the idle stack.
\* MaxConns is not consulted, and the pool does not list the resource before.
CreateDone ==
    /\ creating > 0
    /\ creating' = creating - 1
    /\ \/ UNCHANGED <<res, idle>>
       \/ /\ ~pclosed
          /\ LET r == FreeSlot(res)
             IN  /\ res' = [res EXCEPT ![r] = NewRes("idle")]
                 /\ idle' = Append(idle, r)
    /\ ev' = NoEvent
    /\ UNCHANGED <<cfg, pclosed, closeChan, task, hc, closer, connVars, queryVars>>

(***************************************************************************)
(* Pool.Close                                                              *)
(***************************************************************************)
\* close(p.closeChan)
CloseSignal ==
    /\ closer = "idle"
    /\ closeChan' = "closed"
    /\ closer' = "signalled"
    /\ ev' = NoEvent
    /\ UNCHANGED <<cfg, res, idle, pclosed, task, hc, creating, connVars, queryVars>>

\* p.p.Close(): the pool is marked closed and every idle resource is dropped
\* into its destructor.
PuddleClose ==
    /\ closer = "signalled"
    /\ pclosed' = TRUE
    /\ res' = [r \in Slots |-> IF res[r].status = "idle" THEN NewRes("closing")
                               ELSE res[r]]
    /\ idle' = <<>>
    /\ closer' = "waiting"
    /\ ev' = NoEvent
    /\ UNCHANGED <<cfg, closeChan, task, hc, creating, connVars, queryVars>>

\* p.p.Close() returns once every resource's destructor has finished.
CloseReturn ==
    /\ closer = "waiting"
    /\ \A r \in Slots : res[r].status = "none"
    /\ closer' = "returned"
    /\ ev' = NoEvent
    /\ UNCHANGED <<cfg, res, idle, pclosed, closeChan, task, hc, creating, connVars, queryVars>>

\* close(ch) of the Go runtime: closing a channel that is closed panics.
closeChannel(ch) ==
    IF ch = "closed" THEN [panic |-> TRUE, ch |-> ch]
    ELSE [panic |-> FALSE, ch |-> "closed"]

\* Pool.Close is called once more after it has returned: its first
\* statement, close(p.closeChan), either panics out of Close or lets the
\* call go on to p.p.Close().
CloseAgain ==
    /\ closer = "returned"
    /\ closeChan' = closeChannel(closeChan).ch
    /\ closer' = IF closeChannel(closeChan).panic THEN "panicked" ELSE "signalled"
    /\ ev' = NoEvent
    /\ UNCHANGED <<cfg, res, idle, pclosed, task, hc, creating, connVars, queryVars>>

(***************************************************************************)
(* Pool.Begin: Acquire with the callback conn.Begin(ctx, f).  One caller,  *)
(* BeginTask, makes one Pool.Begin call; sess, stack and returned are the  *)
(* session and the Begin calls of the Conn its Acquire handed to it.       *)
(***************************************************************************)
BeginTask == 1

\* The callback of Pool.Begin has returned: conn.Begin is left.
callbackDoneEarly(stk, ret) == TRUE

callbackDone(stk, ret) == Len(stk) = 0 /\ ret.pc = "exited"

\* What releaseConn reads from the session.  Begin has read every response
\* to its end, so the session is not busy.
connStateOf(s) == [closed |-> s.closed, busy |-> FALSE, tx |-> s.tx]

outcomeOf(err) ==
    CASE err = Nil   -> "nil"
      [] err = Panic -> "panic"
      [] OTHER       -> "err"

\* BeginTask calls Pool.Begin, once.
PoolBeginCall ==
    /\ returned.pc = "none" /\ Len(stack) = 0
    /\ AcquireCall(BeginTask)

\* Another caller enters Pool.Acquire.
OtherCall == \E t \in Tasks \ {BeginTask} : AcquireCall(t)
OtherExit == \E t \in Tasks \ {BeginTask} : AcquireExit(t)

\* The callback runs: conn.Begin(ctx, f) on the acquired Conn, f and the
\* Begin calls f makes through its handle included.
PoolBeginCallback ==
    /\ task[BeginTask].pc = "inF"
    /\ ~callbackDone(stack, returned)
    /\ \/ returned.pc = "none" /\ Len(stack) = 0 /\ ConnBeginCall
       \/ InCall /\ ConnBeginCall
       \/ ConnBeginStmt
       \/ ConnBeginFailed
       \/ InCall /\ ClientStmt
       \/ ServerReportsOtherStatus
       \/ FReturns
       \/ FPanics
       \/ ConnCommit
       \/ ConnRollbackFailedTx
       \/ ConnDeferred

\* The callback has returned what conn.Begin returned; releaseConn classifies
\* the session as Begin left it.
PoolBeginExit ==
    /\ task[BeginTask].pc = "inF"
    /\ callbackDone(stack, returned)
    /\ AcquireReturn(BeginTask, "poolBeginExit", outcomeOf(returned.ret),
                     returned.ret, connStateOf(sess))
    /\ UNCHANGED <<connVars, queryVars>>

(***************************************************************************)
(* Specifications                                                          *)
(***************************************************************************)
\* The pool right after NewPoolConfig(config).
PoolStart(config) ==
    /\ cfg = config
    /\ res = [r \in Slots |-> NoRes]
    /\ idle = <<>>
    /\ pclosed = FALSE
    /\ closeChan = "open"
    /\ task = [t \in Tasks |-> IdleTask]
    /\ hc = HcLoop
    /\ creating = 0
    /\ closer = "idle"
    /\ ev = NoEvent

InitConn == ConnStart /\ PoolStart(ParsePoolConfig(
    [max |-> <<<<"1">>>>, min |-> Absent, lifetime |-> <<<<"1", "m">>>>, idleTime |-> <<<<"0">>>>,
     period |-> Absent], 1).config[1])

InitPool == ConnStart /\ \E config \in AcceptedConfigs : PoolStart(config)

NextPool ==
    \/ \E t \in Tasks : AcquireCall(t)
    \/ \E t \in Tasks : PuddleAcquire(t)
    \/ \E t \in Tasks : AcquireCanceled(t)
    \/ \E t \in Tasks : ConstructDone(t)
    \/ \E t \in Tasks : AcquireExit(t)
    \/ \E r \in Slots : DestructDone(r)
    \/ Tick
    \/ HealthTick
    \/ SweepStep
    \/ CheckMinConns
    \/ HealthExit
    \/ CreateDone
    \/ CloseSignal
    \/ PuddleClose
    \/ CloseReturn

SpecPool == InitPool /\ [][NextPool]_vars

\* TestPoolStress: more callers than MaxConns on a pool that is not closed,
\* every caller with context.Background().
InitStress == ConnStart /\ PoolStart(ParsePoolConfig(
    [max |-> <<<<"1">>>>, min |-> <<<<"1">>>>, lifetime |-> <<<<"1", "m">>>>, idleTime |-> <<<<"0">>>>,
     period |-> Absent], 1).config[1])

NextStress ==
    \/ \E t \in Tasks : AcquireCall(t)
    \/ \E t \in Tasks : PuddleAcquire(t)
    \/ \E t \in Tasks : ConstructDone(t)
    \/ \E t \in Tasks : AcquireExit(t)
    \/ \E r \in Slots : DestructDone(r)
    \/ Tick
    \/ HealthTick
    \/ SweepStep
    \/ CheckMinConns
    \/ CreateDone

\* Fair scheduling: a waiter that can take or build a connection again and
\* again does so at some point (the pool's lock and condition variable hand
\* over in arrival order); constructors (CreateResource has a budget of one
\* minute), callbacks, destructors and the sweep loop run to their end.
FairStress ==
    /\ \A t \in Tasks : SF_vars(PuddleAcquire(t))
    /\ \A t \in Tasks : WF_vars(ConstructDone(t))
    /\ \A t \in Tasks : WF_vars(AcquireExit(t))
    /\ \A r \in Slots : WF_vars(DestructDone(r))
    /\ WF_vars(SweepStep)
    /\ WF_vars(CreateDone)

SpecStress == InitStress /\ [][NextStress]_vars /\ FairStress

\* The same pool with a health-check ticker that keeps firing: every tick is
\* taken, and checkIdleConnsHealth and checkMinConns run to their end.
FairSweep ==
    /\ FairStress
    /\ WF_vars(HealthTick)
    /\ WF_vars(CheckMinConns)

SpecSweep == InitStress /\ [][NextStress]_vars /\ FairSweep

\* The same on a pool whose connections may sit idle for one tick and live
\* for two, so that a connection can pass a sweep with its idle clock running.
InitIdleSweep == ConnStart /\ PoolStart(ParsePoolConfig(
    [max |-> <<<<"1">>>>, min |-> <<<<"1">>>>, lifetime |-> <<<<"2", "m">>>>, idleTime |-> <<<<"1", "m">>>>,
     period |-> Absent], 1).config[1])

SpecIdleSweep == InitIdleSweep /\ [][NextStress]_vars /\ FairSweep

\* A pool that has to keep two connections, on which every connect succeeds:
\* the constructor of Acquire and the one of CreateResource both end with a
\* connection.
InitMinConns == ConnStart /\ PoolStart(ParsePoolConfig(
    [max |-> <<<<"2">>>>, min |-> <<<<"2">>>>, lifetime |-> <<<<"1", "m">>>>, idleTime |-> <<<<"0">>>>,
     period |-> Absent], 1).config[1])

ConstructOk(t) == ConstructDone(t) /\ task'[t].pc = "inF"
CreateOk == CreateDone /\ res' # res

NextMinConns ==
    \/ \E t \in Tasks : AcquireCall(t)
    \/ \E t \in Tasks : PuddleAcquire(t)
    \/ \E t \in Tasks : ConstructOk(t)
    \/ \E t \in Tasks : AcquireExit(t)
    \/ \E r \in Slots : DestructDone(r)
    \/ Tick
    \/ HealthTick
    \/ SweepStep
    \/ CheckMinConns
    \/ CreateOk

FairMinConns ==
    /\ \A t \in Tasks : SF_vars(PuddleAcquire(t))
    /\ \A t \in Tasks : WF_vars(ConstructOk(t))
    /\ \A t \in Tasks : WF_vars(AcquireExit(t))
    /\ \A r \in Slots : WF_vars(DestructDone(r))
    /\ WF_vars(HealthTick)
    /\ WF_vars(SweepStep)
    /\ WF_vars(CheckMinConns)
    /\ WF_vars(CreateOk)

SpecMinConns == InitMinConns /\ [][NextMinConns]_vars /\ FairMinConns

\* One Pool.Begin call next to other callers of Pool.Acquire and the health
\* check, on a pool of two connections.
InitPoolBegin == ConnStart /\ PoolStart(ParsePoolConfig(
    [max |-> <<<<"2">>>>, min |-> Absent, lifetime |-> <<<<"1", "m">>>>, idleTime |-> <<<<"0">>>>,
     period |-> Absent], 1).config[1])

NextPoolBegin ==
    \/ PoolBeginCall
    \/ OtherCall
    \/ \E t \in Tasks : PuddleAcquire(t)
    \/ \E t \in Tasks : ConstructDone(t)
    \/ PoolBeginCallback
    \/ PoolBeginExit
    \/ OtherExit
    \/ \E r \in Slots : DestructDone(r)
    \/ HealthTick
    \/ SweepStep
    \/ CheckMinConns

SpecPoolBegin == InitPoolBegin /\ [][NextPoolBegin]_vars

\* A pool with callers, closed once and then closed again.
NextClose ==
    \/ \E t \in Tasks : AcquireCall(t)
    \/ \E t \in Tasks : PuddleAcquire(t)
    \/ \E t \in Tasks : ConstructDone(t)
    \/ \E t \in Tasks : AcquireExit(t)
    \/ \E r \in Slots : DestructDone(r)
    \/ HealthExit
    \/ CloseSignal
    \/ PuddleClose
    \/ CloseReturn
    \/ CloseAgain

SpecClose == InitPoolBegin /\ [][NextClose]_vars

NextConn ==
    \/ ConnBeginCall
    \/ ConnBeginStmt
    \/ ConnBeginFailed
    \/ ClientStmt
    \/ ServerReportsOtherStatus
    \/ FReturns
    \/ FPanics
    \/ ConnCommit
    \/ ConnRollbackFailedTx
    \/ ConnDeferred

SpecConn == InitConn /\ [][NextConn]_vars

\* Any sequence of Query and Exec calls on one Conn.
NextQuery ==
    \/ ConnQuery
    \/ ConnExec

SpecQuery == InitConn /\ [][NextQuery]_vars

\* The codecs applied to every input in turn.
(***************************************************************************)
(* The parameter buffer as memory.  Every append that outgrows the         *)
(* capacity allocates a new backing array and copies; the old array stays  *)
(* as it was for the slices that still point into it.  A view is a slice   *)
(* value[len(c.paramValuesBuf):]: an array, an offset and a length.        *)
(***************************************************************************)
\* paramValuesBuf after c.paramValuesBuf[0:0]: no array when it is nil, else
\* its one backing array, whose old contents are of no account.
NewMem(sc) ==
    [arrays |-> IF sc.bufNil THEN <<>> ELSE <<<<>>>>,
     cur    |-> IF sc.bufNil THEN 0 ELSE 1,
     len    |-> 0,
     cap    |-> sc.bufCap]

\* The slice c.paramValuesBuf an encoder is handed.
bufOf(mem) ==
    [nil  |-> mem.cur = 0,
     data |-> IF mem.cur = 0 THEN <<>> ELSE SubSeq(mem.arrays[mem.cur], 1, mem.len),
     cap  |-> mem.cap]

viewOffsetZero(mem) == 0

\* len(c.paramValuesBuf), where the view of the value just encoded starts.
viewOffset(mem) == mem.len

\* c.paramValuesBuf = value: the encoder wrote in place when the capacity
\* was enough, and into a new array otherwise.
storeValue(mem, value) ==
    IF mem.cur # 0 /\ value.cap = mem.cap
    THEN [mem EXCEPT !.arrays = [k \in 1..Len(mem.arrays) |->
                                   IF k = mem.cur THEN value.data
                                   ELSE mem.arrays[k]],
                     !.len = Len(value.data)]
    ELSE [arrays |-> Append(mem.arrays, value.data),
          cur    |-> Len(mem.arrays) + 1,
          len    |-> Len(value.data),
          cap    |-> value.cap]

NullView == [null |-> TRUE, arr |-> 0, off |-> 0, len |-> 0]

\* The loop of prepareParams, keeping where every view points.
RECURSIVE paramViews(_, _, _, _, _)
paramViews(args, i, mem, views, slack) ==
    IF i > Len(args) THEN [mem |-> mem, views |-> views]
    ELSE LET e == encodeArg(bufOf(mem), args[i], slack)
         IN  IF e.value.nil
             THEN paramViews(args, i + 1, mem, Append(views, NullView), slack)
             ELSE LET stored == storeValue(mem, e.value)
                  IN  paramViews(args, i + 1, stored,
                                 Append(views,
                                        [null |-> FALSE, arr |-> stored.cur,
                                         off |-> viewOffset(mem),
                                         len |-> stored.len - viewOffset(mem)]),
                                 slack)

\* What the wire driver reads through a view at the time of the call.
viewBytes(mem, view) ==
    IF view.null THEN <<>>
    ELSE SubSeq(mem.arrays[view.arr], view.off + 1, view.off + view.len)

\* The same arguments in every order.
SixArgs ==
    <<Str(<<102, 111, 111>>), Int16(1), Int32(2), Int64(3),
      Float32(<<16285, 28836>>), Float64(<<16402, 15728, 41943, 2621>>)>>
FourArgs ==
    <<Str(<<102, 111, 111>>), Int16(1), Float32(<<16285, 28836>>),
      NullT("NullInt32", <<7>>, TRUE)>>

Reordered(list) ==
    {[i \in 1..Len(list) |-> list[p[i]]] : p \in Permutations(1..Len(list))}
Rotated(list) ==
    {[i \in 1..Len(list) |-> list[((i + k - 1) % Len(list)) + 1]] :
        k \in 0..Len(list) - 1}
Reversed(list) == [i \in 1..Len(list) |-> list[Len(list) + 1 - i]]

OrderedInputs ==
    {QueryInput(args, Len(args), slack, <<>>, 0, "rows", <<>>, 0, Nil) :
        args \in Reordered(FourArgs) \cup Rotated(SixArgs)
                    \cup {Reversed(SixArgs),
                          <<Int16(1), Str([i \in 1..BigLen |-> 120]), Int16(2)>>},
        slack \in {0, 8}}

ConnQueryOrdered ==
    /\ \E in \in OrderedInputs :
        LET q == Query(scratch, in)
        IN  scratch' = q.sc /\ qres' = q.ret
    /\ UNCHANGED <<connVars, poolVars>>

NextOrdered ==
    \/ ConnQueryOrdered

SpecOrdered == InitConn /\ [][NextOrdered]_vars

NextSized ==
    \/ ConnQuerySized
    \/ ConnExec

SpecSized == InitConn /\ [][NextSized]_vars

NextParse ==
    \/ ParseCall

SpecParse == InitConn /\ [][NextParse]_vars

NextCodec ==
    \/ DecodeCall

SpecCodec == InitConn /\ [][NextCodec]_vars

(***************************************************************************)
(* Conn.Begin: properties of the call that exited last                     *)
(***************************************************************************)
Exited == returned.pc = "exited"
SentBy(fr, stmt) == \E i \in 1..Len(fr.sent) : fr.sent[i][1] = stmt
TimesSent(fr, stmt) == Cardinality({i \in 1..Len(fr.sent) : fr.sent[i][1] = stmt})
BeginOk(fr) == Len(fr.sent) > 0 /\ fr.sent[1] = <<"begin", "ok">>
BeginFailed(fr) ==
    Len(fr.sent) > 0 /\ fr.sent[1][1] = "begin" /\ fr.sent[1][2] # "ok"
CommitOk(fr) == \E i \in 1..Len(fr.sent) : fr.sent[i] = <<"commit", "ok">>

\* C1: a Begin whose BEGIN succeeded, whose f returned nil and which read
\* TxStatus 'T' issued COMMIT exactly once and returned COMMIT's outcome:
\* nil when COMMIT succeeded, COMMIT's error otherwise.
C1_CommitOutcomeReturned ==
    (Exited /\ BeginOk(returned) /\ returned.fRes = "nil" /\ returned.seen = "T")
    => /\ TimesSent(returned, "commit") = 1
       /\ \E i \in 1..Len(returned.sent) :
            /\ returned.sent[i][1] = "commit"
            /\ returned.ret = CloseErr("commit", returned.sent[i][2])

\* A Begin read 'T', its COMMIT failed and it returned that error.
C1_Witness ==
    /\ Exited /\ returned.fRes = "nil" /\ returned.seen = "T"
    /\ returned.ret = WireErr("commit", "pgerr")

\* C2: a Begin whose f returned a non-nil error issued ROLLBACK, never issued
\* COMMIT and returned f's error, whatever the ROLLBACK's outcome was.
C2_FErrorRolledBackAndReturned ==
    (Exited /\ returned.fRes = "err")
    => /\ SentBy(returned, "rollback")
       /\ ~SentBy(returned, "commit")
       /\ returned.ret = FErr

\* f returned an error, the ROLLBACK failed and f's error was still returned.
C2_Witness ==
    /\ Exited /\ returned.fRes = "err" /\ returned.ret = FErr
    /\ \E i \in 1..Len(returned.sent) : returned.sent[i] = <<"rollback", "neterr">>

\* C3: a Begin whose f returned nil and which read TxStatus 'E' issued
\* ROLLBACK, never COMMIT, and returned "rolled back failed transaction".
C3_FailedTxRolledBack ==
    (Exited /\ returned.fRes = "nil" /\ returned.seen = "E")
    => /\ SentBy(returned, "rollback")
       /\ ~SentBy(returned, "commit")
       /\ returned.ret = ErrRolledBack

\* A Begin read 'E' after f returned nil and has exited.
C3_Witness ==
    /\ Exited /\ returned.fRes = "nil" /\ returned.seen = "E"
    /\ returned.ret = ErrRolledBack

\* C4: a Begin whose f returned nil and which read TxStatus 'I' issued no
\* COMMIT and returned "not in transaction after calling f"; one that read a
\* byte other than 'T', 'E', 'I' returned "impossible txStatus: <byte>".
C4_IdleAndImpossibleStatus ==
    (Exited /\ returned.fRes = "nil")
    => /\ returned.seen = "I" =>
            ~SentBy(returned, "commit") /\ returned.ret = ErrNotInTx
       /\ returned.seen \notin {"T", "E", "I"} =>
            returned.ret = ErrImpossible(returned.seen)

\* A Begin whose f ended the transaction by hand has exited.
C4_Witness ==
    /\ Exited /\ returned.fRes = "nil" /\ returned.seen = "I"
    /\ returned.ret = ErrNotInTx

\* A Begin that read a byte outside 'T', 'E', 'I' has exited.
C4_WitnessOtherStatus ==
    /\ Exited /\ returned.fRes = "nil" /\ returned.seen = "X"
    /\ returned.ret = ErrImpossible("X")

\* C5: a Begin whose BEGIN failed returned BEGIN's error, never called f and
\* sent neither COMMIT nor ROLLBACK.
C5_BeginFailureReturned ==
    (Exited /\ BeginFailed(returned))
    => /\ returned.ret = CloseErr("begin", returned.sent[1][2])
       /\ ~returned.fCalled
       /\ ~SentBy(returned, "commit")
       /\ ~SentBy(returned, "rollback")

\* A Begin whose BEGIN the server rejected has exited.
C5_Witness ==
    /\ Exited /\ returned.sent = <<(<<"begin", "pgerr">>)>>
    /\ returned.ret = WireErr("begin", "pgerr")

\* C6: a Begin whose BEGIN succeeded and which did not complete a successful
\* COMMIT has issued a ROLLBACK by the time it exits, on every way out
\* (f's error, f's panic, 'E', 'I', another status, a failed COMMIT).
C6_RollbackOnEveryOtherExit ==
    (Exited /\ BeginOk(returned) /\ ~CommitOk(returned))
    => SentBy(returned, "rollback")

\* f panicked and the unwinding Begin issued its ROLLBACK.
C6_Witness ==
    /\ Exited /\ returned.fRes = "panic" /\ returned.ret = Panic
    /\ SentBy(returned, "rollback")

\* A failed COMMIT was followed by the ROLLBACK.
C6_WitnessCommitFailed ==
    /\ Exited /\ returned.seen = "T" /\ ~CommitOk(returned)
    /\ SentBy(returned, "commit") /\ SentBy(returned, "rollback")

(***************************************************************************)
(* Pool: properties of Acquire, releaseConn and the health check           *)
(***************************************************************************)
AcquireExited == ev.op = "acquireExit"
Tainted(conn) == conn.closed \/ conn.busy \/ conn.tx # "I"
Expired(age) == age > cfg.MaxConnLifetime
NoCallInProgress == \A t \in Tasks : task[t].pc = "idle"
HeldByTasks == {task[t].res : t \in {u \in Tasks : task[u].pc = "inF"}}

\* C7 (as amended): when Pool.Acquire exits, releaseConn calls Destroy if and
\* only if the wire session is closed, or busy, or its TxStatus is not 'I', or
\* the connection is older than MaxConnLifetime, and calls Release otherwise;
\* the released connection is back on the idle set exactly when the pool has
\* not been closed, and on a closed pool it is destroyed all the same.
C7_DestroyIffTaintedOrExpired ==
    AcquireExited
    => /\ ev.call = "Destroy" <=> (Tainted(ev.conn) \/ Expired(ev.age))
       /\ ev.call = "Release" <=> ~(Tainted(ev.conn) \/ Expired(ev.age))
       /\ ev.call = "Destroy" => ev.after = "destroying"
       /\ (ev.call = "Release" /\ ~pclosed) => ev.after = "idle"
       /\ (ev.call = "Release" /\ pclosed) => ev.after = "closing"

\* An Acquire exits with a sound connection that only its age condemns.
C7_Witness ==
    /\ AcquireExited /\ ev.conn = HealthyConn /\ Expired(ev.age)
    /\ ev.call = "Destroy" /\ ev.after = "destroying"

\* An Acquire exits with a sound, young connection and it is idle again.
C7_WitnessReleased ==
    /\ AcquireExited /\ ev.conn = HealthyConn /\ ~Expired(ev.age)
    /\ ev.call = "Release" /\ ev.after = "idle"

\* C7 as stated: the connection is destroyed if and only if it is closed,
\* busy, in a transaction or too old, and is back on the idle set otherwise.
C7_AsStated ==
    AcquireExited
    => /\ ev.after \in {"destroying", "closing"}
            <=> (Tainted(ev.conn) \/ Expired(ev.age))
       /\ ~(Tainted(ev.conn) \/ Expired(ev.age)) => ev.after = "idle"

\* C8 (as amended): every resource obtained by Pool.Acquire is handed back
\* exactly once (Destroy or Release) when Acquire exits, whether f returned
\* nil, returned an error or panicked; a connection the pool counts as
\* acquired is held by a running callback or by the idle sweep, or is in the
\* destructor Destroy started.
C8_HandedBackOnEveryExit ==
    /\ AcquireExited
       => /\ ev.call \in {"Destroy", "Release"}
          /\ ev.after \in {"idle", "destroying", "closing"}
    /\ {r \in Slots : res[r].status = "acquired"} = HeldByTasks \cup HeldSlots
    /\ NoCallInProgress
       => AcquiredConns(res) =
            Cardinality(HeldSlots \cup {r \in Slots : res[r].status = "destroying"})

\* f panicked, the connection went back to the idle set, no call is in
\* progress and no connection is counted as acquired.
C8_Witness ==
    /\ AcquireExited /\ ev.err = Panic /\ ev.call = "Release" /\ ev.after = "idle"
    /\ NoCallInProgress /\ AcquiredConns(res) = 0

\* No call is in progress while the idle sweep holds a connection.
C8_WitnessSweepHolds == NoCallInProgress /\ HeldSlots # {}

\* C8 as stated: the hand-back happens on every exit, and AcquiredConns is 0
\* once every call on the pool has returned.
C8_AsStated ==
    /\ AcquireExited => ev.call \in {"Destroy", "Release"}
    /\ NoCallInProgress => AcquiredConns(res) = 0

\* C9: no two running Acquire callbacks hold the same Conn, and the idle sweep
\* never holds a Conn that a running callback holds.
C9_ExclusiveOwnership ==
    /\ \A t1, t2 \in Tasks :
         (t1 # t2 /\ task[t1].pc = "inF" /\ task[t2].pc = "inF")
         => task[t1].res # task[t2].res
    /\ HeldByTasks \cap HeldSlots = {}

\* Two callbacks run while the idle sweep holds a third connection.
C9_Witness ==
    /\ \A t \in Tasks : task[t].pc = "inF"
    /\ Cardinality(HeldByTasks) = NumTasks
    /\ HeldSlots # {}

\* C10: the pool never lists more than MaxConns connections (idle, acquired
\* and under construction), also while checkMinConns is creating connections.
C10_OccupancyWithinMaxConns ==
    IdleConns(res) + AcquiredConns(res) + ConstructingConns(res) <= cfg.MaxConns

ConnectFailed == ev.op = "acquireFailed" /\ ev.err = <<"wire", "connect", "neterr">>

ErrClosedPool == <<"puddle", "closed pool", "">>
AllConnsClosed == \A r \in Slots : res[r].status = "none"

\* What a step may do to a caller once the generic pool is closed: a caller
\* that has no connection yet does not get one, it keeps waiting or returns.
NoNewConnAfterClose ==
    \A t \in Tasks :
        (pclosed /\ task[t].pc \in {"idle", "acquiring"})
        => task'[t].pc \in {"idle", "acquiring"}

C12_WitnessInFlight ==
    /\ pclosed /\ AcquireExited /\ ev.conn = HealthyConn
    /\ ev.call = "Release" /\ ev.after = "closing"

\* C13: Pool.Close has returned only if the backgroundHealthCheck loop has
\* exited, so no sweep and no checkMinConns pass runs after Close returned.
C13_CloseJoinsHealthCheck ==
    closer = "returned" => hc.pc = "exited"

BeginSlot == task[BeginTask].res
PoolBeginExited == ev.op = "poolBeginExit"
LastSent(fr) == fr.sent[Len(fr.sent)][1]

\* While the Conn.Begin of Pool.Begin is in progress its caller holds one
\* acquired connection that nobody else holds.
BeginHoldsItsConn ==
    InCall
    => /\ task[BeginTask].pc = "inF"
       /\ res[BeginSlot].status = "acquired"
       /\ \A t \in Tasks \ {BeginTask} : task[t].res # BeginSlot
       /\ BeginSlot \notin HeldSlots
       /\ ~InSeq(idle, BeginSlot)

\* Pool.Begin returns after conn.Begin has; releaseConn then classifies the
\* session as Begin left it, and only a sound session goes back to idle.
BeginClassifiedAfterReturn ==
    PoolBeginExited
    => /\ Len(stack) = 0 /\ Exited
       /\ ev.err = returned.ret
       /\ ev.conn = connStateOf(sess)
       /\ ev.call \in {"Destroy", "Release"}
       /\ BeginOk(returned) => LastSent(returned) \in {"commit", "rollback"}
       /\ ev.after = "idle" => (~sess.closed /\ sess.tx = "I")

\* A statement reaches the session, or a Begin call starts or ends, only in
\* the callback, on the connection the caller holds before and after.
StatementsOnHeldConn ==
    (sess' # sess \/ stack' # stack)
    => /\ task[BeginTask].pc = "inF" /\ task'[BeginTask] = task[BeginTask]
       /\ res[BeginSlot].status = "acquired"
       /\ res'[BeginSlot].status = "acquired"

\* C14: Pool.Begin runs BEGIN, the statements of f and the final COMMIT or
\* ROLLBACK on the one connection its Acquire obtained; no other acquirer and
\* not the idle sweep holds that connection before Begin has returned and
\* releaseConn has classified it.
C14_PoolBeginOnOneConn ==
    /\ [](BeginHoldsItsConn /\ BeginClassifiedAfterReturn)
    /\ [][StatementsOnHeldConn]_vars

\* Pool.Begin committed and its connection is idle again, while another
\* caller's callback runs on another connection.
C14_Witness ==
    /\ PoolBeginExited /\ CommitOk(returned) /\ ev.err = Nil /\ ev.after = "idle"
    /\ \E t \in Tasks \ {BeginTask} : task[t].pc = "inF"

\* Pool.Begin's ROLLBACK failed, the session was closed and the connection
\* destroyed.
C14_WitnessDestroyed ==
    /\ PoolBeginExited /\ sess.closed /\ ev.call = "Destroy"

(***************************************************************************)
(* Conn.Query and Conn.Exec: properties of the call that returned last     *)
(***************************************************************************)
\* A Query call that got as far as the wire call, and the rows it was given.
QuerySent == qres.op = "query" /\ qres.wire # NoWire
RowsGiven == serverRows(qres.in, qres.wire[1].values)

\* The columns of a row that its destinations cannot take: a column that is
\* missing, or one whose decoder returns an error.
BadCols(results, row) ==
    {i \in 1..Len(results) :
        i > Len(row) \/ decodeResult(results[i], row[i]).err # Nil}
MinOf(S) == CHOOSE x \in S : \A y \in S : x <= y

\* No decoder, row callback or close fails in the call.
NothingFails ==
    /\ \A k \in 1..Len(RowsGiven) : BadCols(qres.in.results, RowsGiven[k]) = {}
    /\ qres.in.failAt \notin 1..Len(RowsGiven)
    /\ qres.in.closeErr = Nil

RowFuncCalls == SelectSeq(qres.trace, LAMBDA e : e.e = "rowFunc")

\* What the destinations hold once row has been decoded into them (from
\* what they held before).
Decoded(results, row, before) ==
    [i \in 1..Len(results) |->
        IF results[i].skip THEN before[i]
        ELSE <<decodeResult(results[i], row[i]).v>>]

\* C15: a Query over n rows in which no decoder, rowFunc or close fails
\* calls rowFunc exactly n times, once per row in row order, each time after
\* every column of that row has been decoded into its destination, and
\* returns rowCount n and a nil error.
C15_RowFuncOncePerRow ==
    (QuerySent /\ NothingFails) =>
        /\ qres.rowCount = Len(RowsGiven)
        /\ qres.err = Nil
        /\ Len(RowFuncCalls) = Len(RowsGiven)
        /\ \A k \in 1..Len(RowFuncCalls) : RowFuncCalls[k].row = k
        /\ \A j \in 1..Len(qres.trace) :
              qres.trace[j].e = "rowFunc" =>
                  /\ \A i \in 1..Len(qres.in.results) :
                        \E h \in 1..(j - 1) :
                            /\ qres.trace[h].e = "decode"
                            /\ qres.trace[h].row = qres.trace[j].row
                            /\ qres.trace[h].col = i
                  /\ \A i \in 1..Len(qres.in.results) :
                        ~qres.in.results[i].skip =>
                            qres.trace[j].dests[i] =
                                <<decodeResult(qres.in.results[i],
                                    RowsGiven[qres.trace[j].row][i]).v>>

C15_Witness ==
    /\ QuerySent /\ NothingFails
    /\ Len(RowsGiven) = 2 /\ RowsGiven[1] # RowsGiven[2]
    /\ qres.in.results = <<Ptr("int16"), Ptr("string")>>
    /\ qres.dests = <<<<Int16(256).v>>, <<Str(<<>>).v>>>>

\* The first row at which the call fails, by a decoder or by rowFunc (0 when
\* there is none), and the column whose decoder fails there (0 when the row
\* decodes and it is rowFunc that fails).
FailRows ==
    {k \in 1..Len(RowsGiven) :
        BadCols(qres.in.results, RowsGiven[k]) # {} \/ qres.in.failAt = k}
FailRow == IF FailRows = {} THEN 0 ELSE MinOf(FailRows)
FailCol ==
    IF BadCols(qres.in.results, RowsGiven[FailRow]) = {} THEN 0
    ELSE MinOf(BadCols(qres.in.results, RowsGiven[FailRow]))

\* The call fails at row FailRow by an error of a decoder or of rowFunc (the
\* failing column is there to be decoded).
LoopFails ==
    /\ QuerySent
    /\ FailRow # 0
    /\ FailCol <= Len(RowsGiven[FailRow])

\* C16: at the first decoder or rowFunc error the row loop stops: nothing of
\* a later column or row is decoded, rowFunc is not called for a row whose
\* decoding failed, rowCount counts the rows read including the failing one,
\* the error returned is that error and the wire result is closed.
C16_LoopStopsAtFirstError ==
    LoopFails =>
        /\ qres.rowCount = FailRow
        /\ qres.err = IF FailCol = 0 THEN RowFuncErr
                      ELSE decodeResult(qres.in.results[FailCol],
                                        RowsGiven[FailRow][FailCol]).err
        /\ qres.closed
        /\ \A j \in 1..Len(qres.trace) :
              /\ qres.trace[j].row <= FailRow
              /\ (qres.trace[j].row = FailRow /\ FailCol # 0) =>
                    /\ qres.trace[j].e = "decode"
                    /\ qres.trace[j].col < FailCol
        /\ Len(RowFuncCalls) = IF FailCol = 0 THEN FailRow ELSE FailRow - 1

C16_Witness ==
    /\ LoopFails
    /\ FailRow = 2 /\ FailCol = 2
    /\ qres.err = ErrNullInto("string")
    /\ qres.rowCount = 2

C16_WitnessRowFunc ==
    /\ LoopFails
    /\ FailRow = 1 /\ FailCol = 0 /\ Len(RowsGiven) = 2
    /\ qres.err = RowFuncErr

\* The row loop ends without a decoder or rowFunc error and rr.Close()
\* returns an error.
CloseFails ==
    /\ QuerySent
    /\ \A k \in 1..Len(RowsGiven) : BadCols(qres.in.results, RowsGiven[k]) = {}
    /\ qres.in.failAt \notin 1..Len(RowsGiven)
    /\ qres.in.closeErr # Nil

\* C17: when the row loop ends without a decoder or rowFunc error and
\* closing the wire result returns an error, Query returns that error
\* together with the number of rows seen.
C17_CloseErrorWithRowCount ==
    CloseFails =>
        /\ qres.err = qres.in.closeErr
        /\ qres.rowCount = Len(RowsGiven)
        /\ Len(RowFuncCalls) = Len(RowsGiven)
        /\ qres.closed

C17_Witness ==
    /\ CloseFails
    /\ qres.err = <<"pgconn", "server error", "">>
    /\ qres.rowCount = 2

C17_WitnessCanceled ==
    /\ CloseFails
    /\ qres.err = <<"context", "canceled", "">>
    /\ qres.rowCount = 1

\* The positions (counted from 0, as Go does) of the arguments that have no
\* encoder and of the destinations that have no decoder.
NoEncoder(args) == {i \in 0..(Len(args) - 1) : args[i + 1].t \notin ParamTypes}
NoDecoder(results) ==
    {i \in 0..(Len(results) - 1) :
        ~results[i + 1].skip /\ results[i + 1].t \notin ResultTypes}

CallReturned == qres.op \in {"query", "exec"}
ArgRejected == CallReturned /\ NoEncoder(qres.in.args) # {}
ResultRejected ==
    /\ qres.op = "query"
    /\ NoEncoder(qres.in.args) = {}
    /\ NoDecoder(qres.in.results) # {}

\* C18: a Query or Exec with an argument that has no encoder, or a Query
\* whose arguments all encode with a destination that has no decoder,
\* returns count 0 and the error naming the first such index and its type,
\* and makes no wire call.
C18_UnsupportedTypeRejected ==
    /\ ArgRejected =>
          /\ qres.rowCount = 0
          /\ qres.wire = NoWire
          /\ qres.err[1] = "unsupported"
          /\ qres.err[2] = "args[" \o ToString(MinOf(NoEncoder(qres.in.args)))
                               \o "] is unsupported type"
          /\ qres.err[3] = qres.in.args[MinOf(NoEncoder(qres.in.args)) + 1].t
    /\ ResultRejected =>
          /\ qres.rowCount = 0
          /\ qres.wire = NoWire
          /\ qres.err[1] = "unsupported"
          /\ qres.err[2] = "results[" \o ToString(MinOf(NoDecoder(qres.in.results)))
                               \o "] is unsupported type"
          /\ qres.err[3] = qres.in.results[MinOf(NoDecoder(qres.in.results)) + 1].t

C18_Witness ==
    /\ ArgRejected
    /\ qres.op = "exec"
    /\ qres.err = <<"unsupported", "args[1] is unsupported type", "uint8">>

C18_WitnessResult ==
    /\ ResultRejected
    /\ qres.err = <<"unsupported", "results[1] is unsupported type", "*uint8">>
    /\ Len(qres.in.results) = 3

\* What the same call does on a Conn that NewConn has just returned.
OnFreshConn ==
    IF qres.op = "query" THEN Query(NewScratch, qres.in).ret
    ELSE Exec(NewScratch, qres.in).ret

\* C19: whatever Query and Exec calls were made on the Conn before, the
\* parameter values, oids, parameter formats and result formats a call hands
\* to the wire driver are those the same call hands over on a fresh Conn.
C19_WireIndependentOfHistory ==
    CallReturned => qres.wire = OnFreshConn.wire

\* A Query that sends one value of a builtin type to a query echoing its
\* parameter and decodes the column into a destination of the same type.
EchoOne ==
    /\ qres.op = "query"
    /\ qres.in.server = "echo"
    /\ Len(qres.in.args) = 1
    /\ qres.in.args[1].t \in BuiltinTypes
    /\ qres.in.results = <<Ptr(qres.in.args[1].t)>>

\* C20: for every value v of a builtin type, the empty string included,
\* sending v through Conn.Query to a query that echoes it and decoding into
\* a destination of the same type yields v, with rowCount 1 and no error.
C20_QueryRoundTrip ==
    EchoOne =>
        /\ qres.err = Nil
        /\ qres.rowCount = 1
        /\ qres.dests = <<<<qres.in.args[1].v>>>>

(***************************************************************************)
(* The NullT wrappers                                                      *)
(***************************************************************************)
\* A Query that sends one NullT wrapper to a query echoing its parameter
\* and decodes the column into a wrapper of the same type.
EchoWrapper ==
    /\ qres.op = "query"
    /\ qres.in.server = "echo"
    /\ Len(qres.in.args) = 1
    /\ qres.in.args[1].t \in NullTypes
    /\ qres.in.results = <<Ptr(qres.in.args[1].t)>>

\* Two wrappers are equal: both not valid, or both valid with one value.
SameWrapper(a, b) == a[1] = b[1] /\ (a[1] = 1 => a = b)

\* C21: a wrapper that is not valid is sent as NULL with oid 0, NULL decodes
\* to a wrapper that is not valid, a non-NULL payload to a valid wrapper
\* holding the decoded value; so a wrapper, valid or not, sent as a
\* parameter and echoed back decodes to an equal wrapper.
C21_WrapperRoundTrip ==
    EchoWrapper =>
        /\ qres.err = Nil
        /\ qres.rowCount = 1
        /\ qres.in.args[1].v[1] = 0 =>
              /\ qres.wire[1].values = <<Null>>
              /\ qres.wire[1].oids = <<0>>
        /\ SameWrapper(qres.dests[1][1], qres.in.args[1].v)

\* The same for every wrapper but the valid empty string.
C21_ExceptEmptyString ==
    (EchoWrapper /\ qres.in.args[1] # NullT("NullString", <<>>, TRUE)) =>
        /\ qres.err = Nil
        /\ qres.rowCount = 1
        /\ qres.in.args[1].v[1] = 0 =>
              /\ qres.wire[1].values = <<Null>>
              /\ qres.wire[1].oids = <<0>>
        /\ SameWrapper(qres.dests[1][1], qres.in.args[1].v)

(***************************************************************************)
(* The decoders                                                            *)
(***************************************************************************)
\* A decoder of a builtin non-nullable destination has just run.
NotNullDecoded ==
    /\ qres.op = "decode"
    /\ ~qres.dest.skip
    /\ qres.dest.t \in BuiltinTypes \cup {"Date"}

\* The widths of the fixed-width types as the specification lists them.
WidthOf(t) ==
    CASE t = "int16" -> 2 [] t = "int32" -> 4 [] t = "int64" -> 8
      [] t = "float32" -> 4 [] t = "float64" -> 8 [] t = "bool" -> 1
      [] t = "Date" -> 4

\* C22: a builtin non-nullable decoder returns an error exactly when the
\* payload is NULL ("NULL cannot be converted to T") or, for a fixed-width
\* type, when the payload's length is not the width of the type; a string
\* takes a payload of every length.
C22_DecoderErrors ==
    NotNullDecoded =>
        /\ qres.payload.null =>
              /\ qres.err[2] = "NULL cannot be converted to"
              /\ qres.err[3] = IF qres.dest.t = "Date" THEN "time.Time"
                               ELSE qres.dest.t
        /\ (~qres.payload.null /\ qres.dest.t = "string") => qres.err = Nil
        /\ (~qres.payload.null /\ qres.dest.t # "string") =>
              (qres.err = Nil <=> Len(qres.payload.b) = WidthOf(qres.dest.t))
        /\ (~qres.payload.null /\ qres.err # Nil) =>
              qres.err[3] = "got " \o ToString(Len(qres.payload.b))

C22_Witness ==
    /\ NotNullDecoded
    /\ qres.dest.t = "int16"
    /\ qres.payload = Bytes(<<0, 7>>)
    /\ qres.err = Nil
    /\ qres.after = <<<<7>>>>

C22_WitnessWidth ==
    /\ NotNullDecoded
    /\ qres.dest.t = "Date"
    /\ qres.payload = Bytes(<<0, 7>>)
    /\ qres.err = <<"decode", "date requires data length of 4", "got 2">>

C22_WitnessNull ==
    /\ NotNullDecoded
    /\ qres.dest.t = "bool"
    /\ qres.payload.null
    /\ qres.err = <<"decode", "NULL cannot be converted to", "bool">>

(***************************************************************************)
(* nil destinations                                                        *)
(***************************************************************************)
SkipCols == {i \in 1..Len(qres.in.results) : qres.in.results[i].skip}
KeptCols == (1..Len(qres.in.results)) \ SkipCols
QuerySkips == QuerySent /\ SkipCols # {}

\* The rows whose kept columns are all there and decode.
KeptDecode(row) ==
    /\ Len(row) >= Len(qres.in.results)
    /\ \A j \in KeptCols : decodeResult(qres.in.results[j], row[j]).err = Nil

\* C23: a nil results[i] makes column i be skipped: text format is asked
\* for it, its bytes, NULL or not, are dropped without error and nothing is
\* stored for it, every other column j is still decoded into results[j], and
\* the row is counted.
C23_NilSkipsColumn ==
    QuerySkips =>
        /\ \A i \in SkipCols :
              /\ qres.wire[1].resultFormats[i] = textFormat
              /\ qres.dests[i] = <<>>
              /\ \A j \in 1..Len(qres.trace) : qres.trace[j].dests[i] = <<>>
        /\ ( /\ \A k \in 1..Len(RowsGiven) : KeptDecode(RowsGiven[k])
             /\ qres.in.failAt \notin 1..Len(RowsGiven)
             /\ qres.in.closeErr = Nil ) =>
              /\ qres.err = Nil
              /\ qres.rowCount = Len(RowsGiven)
              /\ \A j \in 1..Len(qres.trace) :
                    qres.trace[j].e = "rowFunc" =>
                        \A c \in KeptCols :
                            qres.trace[j].dests[c] =
                                <<decodeResult(qres.in.results[c],
                                    RowsGiven[qres.trace[j].row][c]).v>>

\* SELECT 1, 2, 3 into [&a, nil, &c].
C23_Witness ==
    /\ QuerySkips
    /\ qres.in.results = <<Ptr("int32"), NilDest, Ptr("int32")>>
    /\ qres.rowCount = 1
    /\ qres.err = Nil
    /\ qres.dests = <<<<<<1>>>>, <<>>, <<<<3>>>>>>

\* A NULL and a value in a skipped column, in two rows.
C23_WitnessNull ==
    /\ QuerySkips
    /\ qres.in.results = <<NilDest, Ptr("string")>>
    /\ Len(RowsGiven) = 2
    /\ RowsGiven[1][1] = Null
    /\ RowsGiven[2][1] = Bytes(<<0, 7>>)
    /\ qres.rowCount = 2
    /\ qres.err = Nil

(***************************************************************************)
(* Conn.Exec                                                               *)
(***************************************************************************)
\* A step that is an Exec call whose arguments all have an encoder.
ExecStep == qres'.op = "exec" /\ NoEncoder(qres'.in.args) = {}

\* The Query call with the same arguments, made on the same Conn instead.
SameArgsQuery ==
    Query(scratch, QueryInput(qres'.in.args, qres'.in.capArgs, qres'.in.slack,
                              <<>>, 0, "rows", <<>>, 0, Nil)).ret

\* C24: Exec prepares its parameters exactly as Query does, calls the wire
\* driver with nil result formats, and returns the rows-affected number of
\* the command tag that closing the wire result gives; when that close
\* fails it returns 0 and the error.
C24_ExecLikeQuery ==
    [][ExecStep =>
          /\ qres'.wire # NoWire
          /\ qres'.wire[1].values = SameArgsQuery.wire[1].values
          /\ qres'.wire[1].oids = SameArgsQuery.wire[1].oids
          /\ qres'.wire[1].formats = SameArgsQuery.wire[1].formats
          /\ qres'.wire[1].resultFormats = <<>>
          /\ qres'.closed
          /\ qres'.in.closeErr = Nil =>
                qres'.err = Nil /\ qres'.rowCount = qres'.in.rowsAffected
          /\ qres'.in.closeErr # Nil =>
                qres'.err = qres'.in.closeErr /\ qres'.rowCount = 0]_vars

C24_Witness ==
    /\ qres.op = "exec"
    /\ qres.in.args = <<Int32(-65537), Str(<<104, 105>>)>>
    /\ qres.wire # NoWire
    /\ qres.wire[1].values = <<Bytes(<<255, 254, 255, 255>>), Bytes(<<104, 105>>)>>
    /\ qres.err = Nil
    /\ qres.rowCount = 3
    /\ ~scratch.bufNil

C24_WitnessCloseFails ==
    /\ qres.op = "exec"
    /\ qres.wire # NoWire
    /\ qres.err = <<"context", "canceled", "">>
    /\ qres.rowCount = 0

(***************************************************************************)
(* ParsePoolConfig                                                         *)
(***************************************************************************)
Parsed == qres.op = "parse"
Returned == Parsed /\ qres.err = Nil

\* The number a key's text stands for, when it is one.
IsInt32(key) == IsSet(key) /\ ParseInt(key[1]).err = ""
Value(key) == ParseInt(key[1]).n

\* C25: a connection string whose pool_min_conns is less than 0 is rejected
\* with an error and no config, so every config returned has MinConns >= 0.
C25_MinConnsNonNegative ==
    Parsed =>
      /\ IsInt32(qres.in.min) /\ Value(qres.in.min) < 0 =>
            qres.err # Nil /\ qres.config = <<>>
      /\ qres.err = Nil => qres.config[1].MinConns >= 0

\* What the code does with pool_min_conns: any text that is a 32-bit integer
\* is taken as it is, any other text is an error.
C25_MinConnsAsParsed ==
    Returned =>
      qres.config[1].MinConns =
          IF IsSet(qres.in.min) THEN Value(qres.in.min) ELSE defaultMinConns

C25_Witness ==
    /\ Returned
    /\ qres.in.min = <<<<"-", "1">>>>
    /\ qres.config[1].MinConns = -1

\* C26: a connection string whose pool_max_conns is less than 1 or is not a
\* 32-bit integer is rejected with an error and no config, so every config
\* returned has MaxConns >= 1, and max(4, CPU count) when the key is absent.
C26_MaxConnsAtLeastOne ==
    Parsed =>
      /\ IsSet(qres.in.max) /\ (~IsInt32(qres.in.max) \/ Value(qres.in.max) < 1) =>
            qres.err # Nil /\ qres.config = <<>>
      /\ qres.err = Nil =>
            /\ Len(qres.config) = 1
            /\ qres.config[1].MaxConns >= 1
            /\ IsSet(qres.in.max) => qres.config[1].MaxConns = Value(qres.in.max)
            /\ ~IsSet(qres.in.max) =>
                  qres.config[1].MaxConns =
                      IF qres.numCPU > 4 THEN qres.numCPU ELSE 4

C26_Witness ==
    /\ Parsed
    /\ qres.in.max = <<<<"0">>>>
    /\ qres.err = <<"config", "pool_max_conns too small", "">>
    /\ qres.config = <<>>

C26_WitnessRange ==
    /\ Parsed
    /\ qres.in.max = <<<<"2", "1", "4", "7", "4", "8", "3", "6", "4", "8">>>>
    /\ qres.err = <<"config", "cannot parse pool_max_conns", ErrRange>>

C26_WitnessLargest ==
    /\ Returned
    /\ qres.config[1].MaxConns = MaxInt32

C26_WitnessDefault ==
    /\ Returned
    /\ qres.in.max = Absent
    /\ qres.numCPU = 8
    /\ qres.config[1].MaxConns = 8

(***************************************************************************)
(* Eviction by age and by idle time                                        *)
(***************************************************************************)
Usable(r) == res[r].status \in {"idle", "acquired"}
PastLifetime(r) == Usable(r) /\ Age(res, r) > cfg.MaxConnLifetime
IdleTooLong(r) ==
    res[r].status = "idle" /\ IdleDuration(res, r) > cfg.MaxConnIdleTime
Destroyed(r) == res[r].status \in {"destroying", "none"}
HeldByCaller(r) == \E t \in Tasks : task[t].pc = "inF" /\ task[t].res = r

\* A caller's callback ends while it holds slot r.
ReleaseOf(r) ==
    \E t \in Tasks : task[t].pc = "inF" /\ task[t].res = r /\ task'[t].pc = "idle"

\* checkIdleConnsHealth takes its snapshot while slot r is idle.
SweepTakes(r) == hc.pc = "loop" /\ hc'.pc = "sweep" /\ res[r].status = "idle"

\* The loop of checkIdleConnsHealth reaches slot r.
SweepOf(r) ==
    hc.pc = "sweep" /\ Len(hc.held) > 0 /\ Head(hc.held).slot = r
        /\ hc'.held = Tail(hc.held)

\* C27: while the pool stays open and the health-check ticker keeps firing,
\* every connection older than MaxConnLifetime is eventually destroyed (at its
\* next release if it is acquired, at the next idle sweep if it is idle), and
\* every connection idle for longer than MaxConnIdleTime is eventually
\* destroyed or acquired.
C27_ExpiredConnsEvicted ==
    /\ \A r \in Slots : PastLifetime(r) ~> Destroyed(r)
    /\ \A r \in Slots : IdleTooLong(r) ~> (Destroyed(r) \/ HeldByCaller(r))
    /\ [][\A r \in Slots :
            /\ PastLifetime(r) /\ ReleaseOf(r) => res'[r].status = "destroying"
            /\ PastLifetime(r) /\ SweepTakes(r) =>
                  r \in {hc'.held[k].slot : k \in 1..Len(hc'.held)}
            /\ SweepOf(r) /\ Head(hc.held).age > cfg.MaxConnLifetime =>
                  res'[r].status = "destroying"
            /\ SweepOf(r) /\ IdleDuration(res, r) > cfg.MaxConnIdleTime =>
                  res'[r].status = "destroying"]_vars

\* The sweep holds a connection that aged past MaxConnLifetime on the idle
\* stack.
C27_Witness ==
    /\ hc.pc = "sweep" /\ Len(hc.held) > 0
    /\ Head(hc.held).age > cfg.MaxConnLifetime
    /\ PastLifetime(Head(hc.held).slot)

\* An expired connection in the hands of a caller.
C27_WitnessAcquired == \E r \in Slots : PastLifetime(r) /\ HeldByCaller(r)

\* A connection past its idle time but not past its lifetime.
C27_WitnessIdle == \E r \in Slots : IdleTooLong(r) /\ ~PastLifetime(r)

(***************************************************************************)
(* Min-conns maintenance                                                   *)
(***************************************************************************)
\* checkMinConns runs: the step that ends a health-check tick.
MinConnsStep == hc.pc = "sweep" /\ hc'.pc = "loop"

\* What checkMinConns starts on a tick: the number of constructions.
StartsTheShortfall ==
    [][MinConnsStep =>
          /\ Len(hc.held) = 0
          /\ creating' - creating =
                IF TotalConns(res) < cfg.MinConns
                THEN cfg.MinConns - TotalConns(res)
                ELSE 0]_vars

SomeConnDestroyed == \E r \in Slots : res[r].status = "destroying"

C28_WitnessStarted == creating = 2 /\ TotalConns(res) = 0 /\ hc.pc = "loop"

\* A tick that starts nothing: the pool already lists MinConns connections.
C28_WitnessNone ==
    hc.pc = "sweep" /\ Len(hc.held) = 0 /\ TotalConns(res) >= cfg.MinConns

(***************************************************************************)
(* The parameter buffer after a call                                       *)
(***************************************************************************)
Oversized(sc) == sc.bufLen + 512 < sc.bufCap \div 2

\* C29: after any Query or Exec call on a Conn returns, with or without an
\* error, a paramValuesBuf with len + 512 < cap / 2 has been released.
C29_OversizedBufReleased ==
    qres.op \in {"query", "exec"} => ~Oversized(scratch)

\* What the code does: a call that returns no error leaves no oversized
\* buffer behind.
C29_ReleasedOnSuccess ==
    qres.op \in {"query", "exec"} /\ qres.err = Nil => ~Oversized(scratch)

(***************************************************************************)
(* Reallocation of the parameter and result arrays                         *)
(***************************************************************************)
\* A step that is a Query or Exec call.
CallStep == qres'.op \in {"query", "exec"}

Max(a, b) == IF a > b THEN a ELSE b

\* What prepareParams does on this step, and prepareResults when it runs.
ParamsPrepared ==
    prepareParams(scratch, qres'.in.args, qres'.in.capArgs, qres'.in.slack)
ResultsPrepared ==
    prepareResults(scratch, qres'.in.results, qres'.in.capResults)
ResultsStep ==
    qres'.op = "query" /\ ParamsPrepared.err = Nil /\ Len(qres'.in.results) > 0

\* C30: for a non-empty argument list the param arrays are reallocated if and
\* only if their current capacity is below len(args) or above
\* max(2 * len(args), 32), and re-sliced in place otherwise; the result
\* arrays follow the same rule with max(2 * len(results), 64).  The decision
\* depends on the capacity of the Conn's own arrays, not on the caller's
\* slices.
C30_ShrinkOnOvergrowth ==
    [][/\ CallStep /\ Len(qres'.in.args) > 0 =>
             /\ ParamsPrepared.realloc <=>
                   \/ scratch.paramCap < Len(qres'.in.args)
                   \/ scratch.paramCap > Max(2 * Len(qres'.in.args), 32)
             /\ ~ParamsPrepared.realloc => scratch'.paramCap = scratch.paramCap
       /\ ResultsStep =>
             /\ ResultsPrepared.realloc <=>
                   \/ scratch.resultCap < Len(qres'.in.results)
                   \/ scratch.resultCap > Max(2 * Len(qres'.in.results), 64)
             /\ ~ResultsPrepared.realloc => scratch'.resultCap = scratch.resultCap]_vars

\* What the code does: the second test is made on the capacity of the slice
\* the caller passed.
C30_ShrinkOnCallersCap ==
    [][/\ CallStep /\ Len(qres'.in.args) > 0 =>
             /\ ParamsPrepared.realloc <=>
                   \/ scratch.paramCap < Len(qres'.in.args)
                   \/ qres'.in.capArgs > Max(2 * Len(qres'.in.args), 32)
             /\ scratch'.paramCap =
                   IF ParamsPrepared.realloc THEN Max(Len(qres'.in.args), 32)
                   ELSE scratch.paramCap
       /\ ResultsStep =>
             /\ ResultsPrepared.realloc <=>
                   \/ scratch.resultCap < Len(qres'.in.results)
                   \/ qres'.in.capResults > Max(2 * Len(qres'.in.results), 64)
             /\ scratch'.resultCap =
                   IF ResultsPrepared.realloc THEN Max(Len(qres'.in.results), 64)
                   ELSE scratch.resultCap]_vars

\* The parameter arrays stay larger than the threshold of the call that has
\* just returned.
C30_WitnessKeptLarge ==
    /\ qres.op = "query"
    /\ Len(qres.in.args) = 1
    /\ qres.in.capArgs = 1
    /\ scratch.paramCap = ManyLen

\* The parameter arrays were at their smallest and the caller's slice had
\* spare capacity: they have been allocated again.
C30_WitnessCallersCap ==
    /\ qres.op = "query"
    /\ Len(qres.in.args) = 1
    /\ qres.in.capArgs = 65
    /\ scratch.paramCap = 32

(***************************************************************************)
(* Parameter views at the wire call                                        *)
(***************************************************************************)
\* The views and the memory they point into when this step's call reaches
\* the wire driver.
ViewsAtCall ==
    paramViews(qres'.in.args, 1, NewMem(scratch), <<>>, qres'.in.slack)

\* What the encoder of arg produces on its own: bytes, oid and format.
Encoded(arg) == encodeArg([nil |-> FALSE, data |-> <<>>, cap |-> 0], arg, 0)

\* C31: at the wire call every view of a non-NULL argument holds exactly the
\* bytes the encoder of that argument produced, and the oid and format sent
\* with it are that encoder's, in every argument order and also when an
\* append in the middle of the sequence reallocates the buffer.
C31_ViewsHoldEncodedBytes ==
    [][CallStep /\ qres'.wire # NoWire =>
          \A i \in 1..Len(qres'.in.args) :
              ~Encoded(qres'.in.args[i]).value.nil =>
                 /\ viewBytes(ViewsAtCall.mem, ViewsAtCall.views[i])
                       = Encoded(qres'.in.args[i]).value.data
                 /\ qres'.wire[1].values[i].b = Encoded(qres'.in.args[i]).value.data
                 /\ qres'.wire[1].oids[i] = Encoded(qres'.in.args[i]).oid
                 /\ qres'.wire[1].formats[i] = Encoded(qres'.in.args[i]).format]_vars

\* The string was sent last of six arguments, after the buffer, nil at
\* first, had been reallocated on the way.
C31_Witness ==
    /\ qres.op = "query"
    /\ qres.in.args = Reversed(SixArgs)
    /\ qres.wire # NoWire
    /\ qres.wire[1].values[6] = Bytes(<<102, 111, 111>>)
    /\ qres.wire[1].values[5] = Bytes(<<0, 1>>)
    /\ scratch.bufCap > 0

\* A call that found room for all its arguments in the buffer it had.
C31_WitnessInPlace ==
    /\ qres.op = "query"
    /\ Len(qres.in.args) = 4
    /\ qres.wire # NoWire
    /\ qres.wire[1].values[4] = Bytes(<<102, 111, 111>>)
    /\ scratch.bufCap >= 1030

(***************************************************************************)
(* The idle sweep                                                          *)
(***************************************************************************)
IdleSlots == {r \in Slots : res[r].status = "idle"}
SnapshotStep == hc.pc = "loop" /\ hc'.pc = "sweep"
SweepsOut(r) ==
    \/ Head(hc.held).age > cfg.MaxConnLifetime
    \/ IdleDuration(res, r) > cfg.MaxConnIdleTime

\* C32: on each health-check tick every connection that was idle at the
\* snapshot is, by the end of the sweep, destroyed when its age exceeds
\* MaxConnLifetime or its idle duration exceeds MaxConnIdleTime and released
\* unused otherwise; none stays held by the sweep, connections that are
\* acquired are never touched, and a release-unused does not count as an
\* acquire: the connection's idle clock runs on.
C32_IdleSweep ==
    /\ [][SnapshotStep =>
            /\ {hc'.held[k].slot : k \in 1..Len(hc'.held)} = IdleSlots
            /\ \A r \in Slots \ IdleSlots : res'[r] = res[r]]_vars
    /\ [][\A r \in Slots : SweepOf(r) =>
            /\ SweepsOut(r) => res'[r].status = "destroying"
            /\ ~SweepsOut(r) =>
                  /\ res'[r] = [res[r] EXCEPT !.status = "idle"]
                  /\ idle' = Append(idle, r)
            /\ \A q \in Slots \ {r} : res'[q] = res[q]]_vars
    /\ [][MinConnsStep => hc.held = <<>> /\ res' = res]_vars
    /\ (hc.pc = "sweep") ~> (hc.pc = "loop" /\ hc.held = <<>>)

\* The sweep has put back, with its idle clock still running, a connection
\* that was within both limits, while a caller kept another one.
C32_Witness ==
    /\ hc.pc = "sweep" /\ hc.held = <<>>
    /\ \E r \in Slots : res[r].status = "idle" /\ IdleDuration(res, r) = 1
    /\ \E r \in Slots : HeldByCaller(r)

\* The sweep is about to destroy a connection for its idle time alone.
C32_WitnessIdleOnly ==
    /\ hc.pc = "sweep" /\ Len(hc.held) > 0
    /\ Head(hc.held).age <= cfg.MaxConnLifetime
    /\ IdleDuration(res, Head(hc.held).slot) > cfg.MaxConnIdleTime

\* The sweep is about to destroy a connection for its age alone.
C32_WitnessAgeOnly ==
    /\ hc.pc = "sweep" /\ Len(hc.held) > 0
    /\ Head(hc.held).age > cfg.MaxConnLifetime
    /\ IdleDuration(res, Head(hc.held).slot) <= cfg.MaxConnIdleTime

(***************************************************************************)
(* Statements of one Begin call                                            *)
(***************************************************************************)
\* Every Begin call there is: the ones running and the one that has ended.
BeginCalls == {stack[k] : k \in 1..Len(stack)} \cup {returned}

\* C33: within one Conn.Begin call at most one ROLLBACK is ever sent, on
\* every exit path; the explicit rollback of the 'E' path is not repeated by
\* the deferred one.
C33_AtMostOneRollback ==
    \A fr \in BeginCalls : TimesSent(fr, "rollback") <= 1

\* A Begin that rolled back on the 'E' path has exited with one ROLLBACK.
C33_Witness ==
    /\ Exited /\ returned.fRes = "nil" /\ returned.seen = "E"
    /\ TimesSent(returned, "rollback") = 1
    /\ ~returned.txInProgress

\* The ROLLBACK that fr sent came back with an error.
RollbackFailed(fr) ==
    \E i \in 1..Len(fr.sent) : fr.sent[i][1] = "rollback" /\ fr.sent[i][2] # "ok"

\* C34: whenever the ROLLBACK issued by Conn.Begin returns an error the
\* session is closed before Begin returns (from the statement's return on),
\* and releaseConn destroys the connection of a Pool.Begin instead of
\* returning it to the idle set.
C34_FailedRollbackClosesSession ==
    /\ \A fr \in BeginCalls : RollbackFailed(fr) => sess.closed
    /\ (PoolBeginExited /\ RollbackFailed(returned))
       => /\ ev.conn.closed
          /\ ev.call = "Destroy"
          /\ ev.after # "idle"
          /\ ~InSeq(idle, BeginSlot)

\* A ROLLBACK cut short by the context, which leaves the socket alone: Begin
\* closed the session itself and the pool destroyed the connection.
C34_Witness ==
    /\ PoolBeginExited
    /\ \E i \in 1..Len(returned.sent) : returned.sent[i] = <<"rollback", "ctxerr">>
    /\ \A i \in 1..Len(returned.sent) : returned.sent[i][2] # "neterr"
    /\ returned.ret = FErr
    /\ sess.closed
    /\ ev.call = "Destroy"

\* C35: in a Begin call whose COMMIT was issued and succeeded no ROLLBACK is
\* sent afterwards: COMMIT is the last statement that Begin sends.
C35_NoRollbackAfterCommit ==
    \A fr \in BeginCalls :
        (fr.pc = "exited" /\ CommitOk(fr)) => LastSent(fr) = "commit"

\* What Begin does after a COMMIT that succeeded: txInProgress is still
\* true, and the deferred closure sends a ROLLBACK as its last statement.
C35_RollbackFollowsCommit ==
    \A fr \in BeginCalls :
        (fr.pc = "exited" /\ CommitOk(fr))
        => /\ Len(fr.sent) = 3
           /\ fr.sent[1] = <<"begin", "ok">>
           /\ fr.sent[2] = <<"commit", "ok">>
           /\ fr.sent[3][1] = "rollback"
           /\ fr.ret = Nil

\* A committed Begin whose trailing ROLLBACK failed: nil is returned and the
\* session is closed.
C35_WitnessClosedAfterCommit ==
    /\ Exited /\ CommitOk(returned) /\ returned.ret = Nil
    /\ LastSent(returned) = "rollback" /\ RollbackFailed(returned)
    /\ sess.closed

\* A Begin call returns in this step: its activation leaves the stack.
BeginReturns == Len(stack') < Len(stack)

\* C36: whenever Conn.Begin returns after its BEGIN succeeded, whatever it
\* returns, the session is closed or reports TxStatus 'I' at that moment; a
\* connection that Pool.Begin hands back is never released to the idle set
\* while inside a transaction.
C36_ReturnsOutsideTransaction ==
    [][/\ (BeginReturns /\ BeginOk(returned'))
          => (returned'.pc = "exited" /\ (sess'.closed \/ sess'.tx = "I"))
       /\ (ev'.op = "poolBeginExit" /\ ev # ev' /\ BeginOk(returned'))
          => /\ ev'.conn.closed \/ ev'.conn.tx = "I"
             /\ ev'.after = "idle" => (~ev'.conn.closed /\ ev'.conn.tx = "I")
             /\ ev'.conn.closed => ev'.call = "Destroy"]_vars

\* A Begin nested in f has returned after a COMMIT cut short by the context
\* and a ROLLBACK that succeeded; the outer Begin is still running.
C36_Witness ==
    /\ InCall /\ Exited /\ BeginOk(returned)
    /\ \E i \in 1..Len(returned.sent) : returned.sent[i] = <<"commit", "ctxerr">>
    /\ LastSent(returned) = "rollback" /\ ~RollbackFailed(returned)
    /\ ~sess.closed /\ sess.tx = "I"

\* Pool.Begin ended with "impossible txStatus" and its connection is idle again.
C36_WitnessImpossible ==
    /\ PoolBeginExited /\ BeginOk(returned)
    /\ returned.seen = "X" /\ returned.ret = ErrImpossible("X")
    /\ ev.after = "idle" /\ ev.conn.tx = "I"

\* Pool.Begin ended with a failed ROLLBACK: closed session, destroyed.
C36_WitnessClosed ==
    /\ PoolBeginExited /\ BeginOk(returned) /\ RollbackFailed(returned)
    /\ ev.conn.closed /\ ev.call = "Destroy"

(***************************************************************************)
(* NULL parameters                                                         *)
(***************************************************************************)
\* The encoder of arg returns NULL: arg is a NullT wrapper that is not valid.
EncoderGivesNull(arg) == arg.t \in NullTypes /\ arg.v[1] = 0

\* The encoding of arg has no bytes.
EmptyEncoding(arg) ==
    \/ arg.t = "string" /\ arg.v = <<>>
    \/ arg.t = "NullString" /\ arg.v = <<1>>

\* A call has handed its parameters to the wire driver.
WireCalled == CallReturned /\ qres.wire # NoWire

\* C37: whatever the state of the Conn's scratch buffer (fresh, reused, just
\* released), the parameter handed to the wire driver for args[i] is the NULL
\* marker if and only if the encoder of args[i] returned NULL; an argument
\* whose encoding has zero length, such as the empty string, is passed as a
\* non-NULL empty value.
C37_NullIffEncoderNull ==
    WireCalled =>
        \A i \in 1..Len(qres.in.args) :
            (qres.wire[1].values[i] = Null) <=> EncoderGivesNull(qres.in.args[i])

\* What prepareParams does: the parameter is the NULL marker when the encoder
\* returned NULL and also when the encoder appended nothing to a buffer that
\* is nil, as it is on a fresh Conn and after a release until some argument
\* of the call has appended a byte.
C37_NullAlsoFromNilBuffer ==
    [][(CallStep /\ qres'.wire # NoWire) =>
          \A i \in 1..Len(qres'.in.args) :
              (qres'.wire[1].values[i] = Null)
              <=> \/ EncoderGivesNull(qres'.in.args[i])
                  \/ /\ scratch.bufNil
                     /\ \A j \in 1..i : \/ EncoderGivesNull(qres'.in.args[j])
                                        \/ EmptyEncoding(qres'.in.args[j])]_vars

\* The empty string went out as NULL on a Conn whose buffer is nil.
C37_WitnessEmptyAsNull ==
    /\ WireCalled
    /\ qres.in.args = <<Str(<<>>)>>
    /\ qres.wire[1].values = <<Null>>

\* The empty string went out as an empty value on a Conn with a buffer.
C37_WitnessEmptyAsEmpty ==
    /\ WireCalled
    /\ qres.in.args = <<Str(<<>>)>>
    /\ qres.wire[1].values = <<Bytes(<<>>)>>

\* A decoder has just returned an error.
DecodeFailed == qres.op = "decode" /\ qres.err # Nil

\* C38: when a decoder returns an error (NULL into a non-nullable
\* destination, or a payload of the wrong width) the destination is left
\* exactly as it was before the call, for the plain pointer destinations and
\* for the NullT wrappers (neither Value nor Valid changes).
C38_ErrorLeavesDestination ==
    DecodeFailed => qres.after = qres.before

\* What the decoders do: a plain destination is left as it was; a NullT
\* wrapper keeps its Value and has Valid set to true.
C38_WrapperBecomesValid ==
    DecodeFailed =>
        IF qres.dest.t \in NullTypes
        THEN /\ ~qres.payload.null
             /\ qres.after[1][1] = 1
             /\ Tail(qres.after[1]) =
                    (IF qres.before = <<>> THEN zeroValue(baseType(qres.dest.t))
                     ELSE Tail(qres.before[1]))
        ELSE qres.after = qres.before

\* A NullInt16 that was not valid is valid after a 4-byte payload failed.
C38_WitnessWrapper ==
    /\ DecodeFailed
    /\ qres.dest = Ptr("NullInt16")
    /\ qres.payload = Bytes(<<255, 255, 255, 254>>)
    /\ qres.before = <<(<<0, 0>>)>>
    /\ qres.after = <<(<<1, 0>>)>>

\* An int16 destination kept its value after a NULL.
C38_WitnessPlain ==
    /\ DecodeFailed
    /\ qres.dest = Ptr("int16")
    /\ qres.payload = Null
    /\ qres.before = <<(<<0>>)>>
    /\ qres.after = qres.before

\* ParsePoolConfig has returned a configuration and no error.
ParseAccepted == qres.op = "parse" /\ qres.err = Nil

\* C39: every PoolConfig that ParsePoolConfig returns without error has
\* HealthCheckPeriod > 0, so that the ticker of the maintenance task can be
\* created for every accepted configuration.
C39_HealthCheckPeriodPositive ==
    ParseAccepted => qres.config[1].HealthCheckPeriod > 0

\* What ParsePoolConfig does with pool_health_check_period: a text that
\* time.ParseDuration takes becomes HealthCheckPeriod whatever its sign, a
\* text it refuses is an error, and without the key the period is the
\* default.
C39_PeriodAsParsed ==
    (qres.op = "parse" /\ ParsePoolConfig([qres.in EXCEPT !.period = Absent],
                                           qres.numCPU).err = Nil)
    => IF ~IsSet(qres.in.period)
       THEN qres.err = Nil
            /\ qres.config[1].HealthCheckPeriod = defaultHealthCheckPeriod
       ELSE IF ParseDuration(qres.in.period[1]).err # ""
       THEN qres.err = <<"config", "invalid pool_health_check_period",
                         ParseDuration(qres.in.period[1]).err>>
            /\ qres.config = <<>>
       ELSE qres.err = Nil
            /\ qres.config[1].HealthCheckPeriod = ParseDuration(qres.in.period[1]).d

\* pool_health_check_period=0 was accepted.
C39_WitnessZero ==
    /\ ParseAccepted
    /\ qres.in.period = <<(<<"0">>)>>
    /\ qres.config[1].HealthCheckPeriod = 0

\* pool_health_check_period=-1m was accepted.
C39_WitnessNegative ==
    /\ ParseAccepted
    /\ qres.in.period = <<(<<"-", "1", "m">>)>>
    /\ qres.config[1].HealthCheckPeriod = -1

\* pool_health_check_period=1h30m was accepted as 90 minutes.
C39_WitnessTerms ==
    /\ ParseAccepted
    /\ qres.in.period = <<(<<"1", "h", "3", "0", "m">>)>>
    /\ qres.config[1].HealthCheckPeriod = 90

(***************************************************************************)
(* Pool.Close called twice                                                 *)
(***************************************************************************)
\* C40: Pool.Close is idempotent: a second Close on a pool that is already
\* closed returns normally, without failure, and leaves the pool closed.
C40_CloseIdempotent ==
    closer # "panicked"

\* What the second Close does: it panics in close(p.closeChan) before it
\* reaches p.p.Close(), and the pool stays as the first Close left it.
C40_SecondClosePanics ==
    [][(closer = "returned" /\ closer' # closer)
       => /\ closer' = "panicked"
          /\ closeChan' = "closed" /\ pclosed'
          /\ UNCHANGED <<res, idle, task, hc, creating>>]_vars

\* The second Close has panicked on the closed pool.
C40_WitnessPanicked ==
    /\ closer = "panicked"
    /\ pclosed /\ closeChan = "closed" /\ AllConnsClosed
    /\ hc.pc = "exited"

=============================================================================
